---- MODULE Spec2Model ----
(***************************************************************************)
(* OctoPrint-Uptime: the uptime resolver, the duration formatters, the     *)
(* permission gate and the get-uptime API handler.                         *)
(*                                                                         *)
(* Two implementations live in the package:                                *)
(*   octoprint_uptime/plugin.py    class OctoprintUptimePlugin, with the   *)
(*                                 tagged resolver and the helper methods  *)
(*   octoprint_uptime/__init__.py  the package-level class of the same     *)
(*                                 name (the one OctoPrint loads through   *)
(*                                 __plugin_implementation__).             *)
(* Definitions of plugin.py keep their names; definitions of __init__.py   *)
(* carry the prefix init_ where the name would clash.                      *)
(*                                                                         *)
(* Python values are tagged records, a call's outcome is a return value, a *)
(* raised exception class, or a call that never returns.  A float number   *)
(* of seconds is an integer number of ticks, Resolution ticks per second,  *)
(* so that int(seconds) is a real truncation.                              *)
(***************************************************************************)
EXTENDS Integers, Sequences, FiniteSets, TLC

VARIABLES
    _settings,                \* the host's settings store of the plugin
    _debug_enabled,           \* plugin.py:182
    _navbar_enabled,          \* plugin.py:183
    _display_format,          \* plugin.py:184
    _last_debug_time,         \* plugin.py:185 (ticks)
    _debug_throttle_seconds,  \* plugin.py:187
    _last_uptime_source,      \* plugin.py:188
    _last_throttle_notice,    \* plugin.py:186, __init__.py:246 (ticks)
    impl,                     \* the class of the instance: "plugin" or "init"
    now,                      \* time.time() (ticks)
    pc,                       \* "idle" or "done": a call has returned to its caller
    call                      \* the call that has just ended: op, inputs, outcome

\* the fields the settings refresh writes, and the other fields
cached == << _debug_enabled, _navbar_enabled, _display_format, _debug_throttle_seconds >>
stamps == << _last_debug_time, _last_throttle_notice >>

vars == << _settings, cached, stamps, _last_uptime_source, impl, now, pc, call >>

-----------------------------------------------------------------------------
(* Bounds of the model *)

Resolution == 2
MaxDays == 1
MaxNow == 1
StartTime == 1000
TickSeconds == 60

-----------------------------------------------------------------------------
(* Python values *)

PyNone == [t |-> "None"]
PyFloat(x) == [t |-> "float", v |-> x]
PyInt(n) == [t |-> "int", v |-> n]
PyBool(b) == [t |-> "bool", v |-> b]
PyStr(s) == [t |-> "str", v |-> s]
PyList == [t |-> "list"]
\* float("inf"), as a settings value: a number that int() cannot convert
PyFloatInf == [t |-> "float_inf"]
PyTuple2(a, b) == [t |-> "tuple", a |-> a, b |-> b]

\* isinstance(x, (int, float)); bool is an int in Python
IsNumber(x) == x.t \in {"float", "int", "bool"}

\* the value of a number in ticks
Ticks(x) == CASE x.t = "float" -> x.v
              [] x.t = "int" -> x.v * Resolution
              [] x.t = "bool" -> IF x.v THEN Resolution ELSE 0

(* Outcomes of a call *)
Ret(v) == [k |-> "return", v |-> v]
Raise(e) == [k |-> "raise", e |-> e]
Hang == [k |-> "hang"]

(* Python's exception classes, each with its base class *)
Base(e) ==
    CASE e \in {"FileNotFoundError", "PermissionError"} -> "OSError"
      [] e \in {"UnicodeDecodeError"} -> "ValueError"
      [] e \in {"ModuleNotFoundError"} -> "ImportError"
      [] e \in {"IndexError", "KeyError"} -> "LookupError"
      [] e \in {"CalledProcessError", "TimeoutExpired"} -> "SubprocessError"
      [] e \in {"Forbidden"} -> "HTTPException"
      [] e \in {"OverflowError"} -> "ArithmeticError"
      [] OTHER -> "Exception"

\* `except classes:` catches e
Caught(e, classes) ==
    \/ e \in classes
    \/ Base(e) \in classes
    \/ Base(Base(e)) \in classes

\* the one element of a singleton set: Only({ e : x \in {v} }) is e with x
\* bound to the value of v, which is computed once
Only(S) == CHOOSE x \in S : TRUE

\* statement; value: the statement's exception, or the value
Then(first, value) == Only({ IF f.k # "return" THEN f ELSE value : f \in {first} })

\* try: body / except classes: handler
TryExcept(body, classes, handler) ==
    Only({ IF b.k = "raise" /\ Caught(b.e, classes) THEN handler ELSE b : b \in {body} })

-----------------------------------------------------------------------------
(* Duration formatters, plugin.py *)

\* int(seconds): truncation toward zero
int(x) == IF x >= 0 THEN x \div Resolution ELSE -((-x) \div Resolution)

\* f"{n}{unit}"
Part(n, unit) == ToString(n) \o unit

\* " ".join(parts)
RECURSIVE join(_)
join(parts) ==
    IF Len(parts) = 0 THEN ""
    ELSE IF Len(parts) = 1 THEN parts[1]
    ELSE parts[1] \o " " \o join(Tail(parts))

\* a formatter that drops every zero component before the seconds
format_uptime_skipping_zeros(ticks) ==
    LET seconds == int(ticks)
        days == seconds \div 86400
        hours == (seconds % 86400) \div 3600
        minutes == (seconds % 3600) \div 60
        secs == seconds % 60
        p1 == IF days # 0 THEN <<Part(days, "d")>> ELSE <<>>
        p2 == IF hours # 0 THEN p1 \o <<Part(hours, "h")>> ELSE p1
        p3 == IF minutes # 0 THEN p2 \o <<Part(minutes, "m")>> ELSE p2
        p4 == p3 \o <<Part(secs, "s")>>
    IN join(p4)

format_uptime(ticks) ==
    LET seconds == int(ticks)
        days == seconds \div 86400
        hours == (seconds % 86400) \div 3600
        minutes == (seconds % 3600) \div 60
        secs == seconds % 60
        p1 == IF days # 0 THEN <<Part(days, "d")>> ELSE <<>>
        p2 == IF hours # 0 \/ days # 0 THEN p1 \o <<Part(hours, "h")>> ELSE p1
        p3 == IF minutes # 0 \/ hours # 0 \/ days # 0
              THEN p2 \o <<Part(minutes, "m")>> ELSE p2
        p4 == p3 \o <<Part(secs, "s")>>
    IN join(p4)

\* a formatter that leaves the hours out when they are zero
format_uptime_dhm_hiding_zero_hours(ticks) ==
    LET seconds == int(ticks)
        days == seconds \div 86400
        rem == seconds - days * 86400
        hours == rem \div 3600
        rem2 == rem - hours * 3600
        minutes == rem2 \div 60
    IN IF days # 0
       THEN Part(days, "d") \o " " \o Part(hours, "h") \o " " \o Part(minutes, "m")
       ELSE IF hours # 0 THEN Part(hours, "h") \o " " \o Part(minutes, "m")
       ELSE Part(minutes, "m")

format_uptime_dhm(ticks) ==
    LET seconds == int(ticks)
        days == seconds \div 86400
        rem == seconds - days * 86400
        hours == rem \div 3600
        rem2 == rem - hours * 3600
        minutes == rem2 \div 60
    IN IF days # 0
       THEN Part(days, "d") \o " " \o Part(hours, "h") \o " " \o Part(minutes, "m")
       ELSE Part(hours, "h") \o " " \o Part(minutes, "m")

format_uptime_dh(ticks) ==
    LET seconds == int(ticks)
        days == seconds \div 86400
        rem == seconds - days * 86400
        hours == rem \div 3600
    IN IF days # 0
       THEN Part(days, "d") \o " " \o Part(hours, "h")
       ELSE Part(hours, "h")

format_uptime_d(ticks) ==
    LET seconds == int(ticks)
        days == seconds \div 86400
    IN Part(days, "d")

(* Duration formatters, __init__.py *)

_format_uptime(ticks) ==
    LET seconds == int(ticks)
        days == seconds \div 86400
        rem == seconds - days * 86400
        hours == rem \div 3600
        rem2 == rem - hours * 3600
        minutes == rem2 \div 60
        secs == rem2 - minutes * 60
        p1 == IF days # 0 THEN <<Part(days, "d")>> ELSE <<>>
        p2 == IF hours # 0 \/ days # 0 THEN p1 \o <<Part(hours, "h")>> ELSE p1
        p3 == IF minutes # 0 \/ hours # 0 \/ days # 0
              THEN p2 \o <<Part(minutes, "m")>> ELSE p2
        p4 == IF secs # 0 \/ Len(p3) = 0 THEN p3 \o <<Part(secs, "s")>> ELSE p3
    IN join(p4)

_format_uptime_dhm(ticks) ==
    LET seconds == int(ticks)
        days == seconds \div 86400
        rem == seconds - days * 86400
        hours == rem \div 3600
        rem2 == rem - hours * 3600
        minutes == rem2 \div 60
    IN IF days # 0
       THEN Part(days, "d") \o " " \o Part(hours, "h") \o " " \o Part(minutes, "m")
       ELSE Part(hours, "h") \o " " \o Part(minutes, "m")

_format_uptime_dh(ticks) ==
    LET seconds == int(ticks)
        days == seconds \div 86400
        rem == seconds - days * 86400
        hours == rem \div 3600
    IN IF days # 0
       THEN Part(days, "d") \o " " \o Part(hours, "h")
       ELSE Part(hours, "h")

_format_uptime_d(ticks) ==
    LET seconds == int(ticks)
        days == seconds \div 86400
    IN Part(days, "d")

-----------------------------------------------------------------------------
(* The operating system as the resolver sees it: /proc/uptime, the psutil  *)
(* library and the `uptime -s` command.                                    *)

\* 10 * 365 * 24 * 3600 seconds, in ticks (plugin.py:303)
TenYears == 10 * 365 * 24 * 3600 * Resolution

\* what reading /proc/uptime does
ProcFile(state, val) == [state |-> state, val |-> val]

\* what importing psutil and calling boot_time() does
Psutil(state, exc, boot) == [state |-> state, exc |-> exc, boot |-> boot]

\* what running `uptime -s` does
UptimeCmd(state, boot) == [state |-> state, boot |-> boot]

\* uptime readings in ticks: zero, a fraction of a second, and values that
\* have a minute, an hour and a day component
UptimeSamples ==
    { 0, Resolution - 1, 61 * Resolution, 3601 * Resolution + 1 }
    \cup { d * 86400 * Resolution : d \in 1..MaxDays }

ProcFiles ==
    { ProcFile(s, 0) : s \in {"missing", "unreadable", "undecodable", "empty", "garbage"} }
    \cup { ProcFile("ok", v) : v \in UptimeSamples }

\* exceptions boot_time() is seen to raise: psutil.AccessDenied and the other
\* psutil.Error classes derive from Exception
PsutilErrors == {"AttributeError", "PermissionError", "PsutilError", "RuntimeError"}

\* now - boot_time for the boot times psutil reports: in the future, now,
\* in the past, at and around the ten-year bound
PsutilDeltas == {-1, 0, 1234 * Resolution + 1, TenYears - 1, TenYears}

Psutils(t) ==
    { Psutil("import_error", "ModuleNotFoundError", 0) }
    \cup { Psutil("boot_raises", e, 0) : e \in PsutilErrors }
    \cup { Psutil("boot_bad_type", "TypeError", 0) }
    \cup { Psutil("ok", "", t - d) : d \in PsutilDeltas }

\* whole seconds since the boot timestamp that `uptime -s` prints
CmdDeltas == {0, 86400}

UptimeCmds(t) ==
    { UptimeCmd(s, 0) : s \in {"missing", "nonzero", "hang", "undecodable", "unparseable"} }
    \cup { UptimeCmd("ok", (t \div Resolution - d) * Resolution) : d \in CmdDeltas }

OS(proc, psutil, cmd) == [proc |-> proc, psutil |-> psutil, cmd |-> cmd]

OSEnvs(t) == { OS(p, q, c) : p \in ProcFiles, q \in Psutils(t), c \in UptimeCmds(t) }

\* the statement `float(f.readline().split()[0])` inside `with open(...)`,
\* guarded by os.path.exists
ReadProcUptime(proc) ==
    CASE proc.state = "missing" -> Ret(PyNone)
      [] proc.state = "unreadable" -> Raise("PermissionError")
      [] proc.state = "undecodable" -> Raise("UnicodeDecodeError")
      [] proc.state = "empty" -> Raise("IndexError")
      [] proc.state = "garbage" -> Raise("ValueError")
      [] proc.state = "ok" -> Ret(PyFloat(proc.val))

\* psutil.boot_time() once psutil is imported
BootTime(psutil) ==
    CASE psutil.state = "boot_raises" -> Raise(psutil.exc)
      [] psutil.state = "boot_bad_type" -> Ret(PyStr("invalid"))
      [] psutil.state = "ok" -> Ret(PyFloat(psutil.boot))

-----------------------------------------------------------------------------
(* The uptime resolver, plugin.py *)

_get_uptime_from_proc(os) ==
    TryExcept(ReadProcUptime(os.proc), {"ValueError", "TypeError", "OSError"}, Ret(PyNone))

_get_uptime_from_psutil(os, t) ==
    IF os.psutil.state = "import_error" THEN Ret(PyNone)
    ELSE LET boot == BootTime(os.psutil)
             body == IF boot.k = "raise" THEN boot
                     ELSE IF ~IsNumber(boot.v) THEN Raise("TypeError")
                     ELSE LET uptime == t - Ticks(boot.v)
                          IN IF 0 <= uptime /\ uptime < TenYears
                             THEN Ret(PyFloat(uptime))
                             ELSE Ret(PyNone)
         IN TryExcept(body, {"AttributeError", "TypeError", "ValueError", "OSError"},
                      Ret(PyNone))

\* a resolver that asks psutil before /proc/uptime
_get_uptime_seconds_psutil_first(os, t, source) ==
    LET proc == _get_uptime_from_proc(os)
        psutil == _get_uptime_from_psutil(os, t)
    IN IF psutil.k # "return" THEN [out |-> psutil, source |-> source]
       ELSE IF psutil.v # PyNone
       THEN [out |-> Ret(PyTuple2(psutil.v, PyStr("psutil"))), source |-> PyStr("psutil")]
       ELSE IF proc.k # "return" THEN [out |-> proc, source |-> source]
       ELSE IF proc.v # PyNone
       THEN [out |-> Ret(PyTuple2(proc.v, PyStr("proc"))), source |-> PyStr("proc")]
       ELSE [out |-> Ret(PyTuple2(PyNone, PyStr("none"))), source |-> PyStr("none")]

\* the result and the value _last_uptime_source has after the call
_get_uptime_seconds(os, t, source) ==
    LET proc == _get_uptime_from_proc(os)
        psutil == _get_uptime_from_psutil(os, t)
    IN IF proc.k # "return" THEN [out |-> proc, source |-> source]
       ELSE IF proc.v # PyNone
       THEN [out |-> Ret(PyTuple2(proc.v, PyStr("proc"))), source |-> PyStr("proc")]
       ELSE IF psutil.k # "return" THEN [out |-> psutil, source |-> source]
       ELSE IF psutil.v # PyNone
       THEN [out |-> Ret(PyTuple2(psutil.v, PyStr("psutil"))), source |-> PyStr("psutil")]
       ELSE [out |-> Ret(PyTuple2(PyNone, PyStr("none"))), source |-> PyStr("none")]

(* The uptime resolver, __init__.py *)

\* subprocess.check_output(["uptime", "-s"]), decode, strptime, mktime
RunUptimeCmd(cmd, t) ==
    CASE cmd.state = "missing" -> Raise("FileNotFoundError")
      [] cmd.state = "nonzero" -> Raise("CalledProcessError")
      [] cmd.state = "hang" -> Hang
      [] cmd.state = "undecodable" -> Raise("UnicodeDecodeError")
      [] cmd.state = "unparseable" -> Raise("ValueError")
      [] cmd.state = "ok" -> Ret(PyFloat(t - cmd.boot))

\* a resolver that gives up after psutil
init_get_uptime_seconds_without_command(os, t) ==
    LET proc == TryExcept(ReadProcUptime(os.proc), {"Exception"}, Ret(PyNone))
        boot == IF os.psutil.state = "import_error"
                THEN Raise("ModuleNotFoundError") ELSE BootTime(os.psutil)
        psutil == TryExcept(
                    IF boot.k = "raise" THEN boot
                    ELSE IF ~IsNumber(boot.v) THEN Raise("TypeError")
                    ELSE Ret(PyFloat(t - Ticks(boot.v))),
                    {"Exception"}, Ret(PyNone))
    IN IF proc.v # PyNone THEN proc
       ELSE IF psutil.v # PyNone THEN psutil
       ELSE Ret(PyInt(0))

init_get_uptime_seconds(os, t) ==
    LET proc == TryExcept(ReadProcUptime(os.proc), {"Exception"}, Ret(PyNone))
        boot == IF os.psutil.state = "import_error"
                THEN Raise("ModuleNotFoundError") ELSE BootTime(os.psutil)
        psutil == TryExcept(
                    IF boot.k = "raise" THEN boot
                    ELSE IF ~IsNumber(boot.v) THEN Raise("TypeError")
                    ELSE Ret(PyFloat(t - Ticks(boot.v))),
                    {"Exception"}, Ret(PyNone))
        cmd == TryExcept(RunUptimeCmd(os.cmd, t), {"Exception"}, Ret(PyInt(0)))
    IN IF proc.v # PyNone THEN proc
       ELSE IF psutil.v # PyNone THEN psutil
       ELSE cmd

-----------------------------------------------------------------------------
(* Collaborators of the plugin: the logger, the web layer, the host's      *)
(* capability check, a caller-supplied getter, the settings store.         *)

\* self._logger: not set, working, or with methods that raise exc
Logger(state, exc) == [state |-> state, exc |-> exc]

Loggers ==
    { Logger("absent", ""), Logger("ok", "") }
    \cup { Logger("raises", e) : e \in {"TypeError", "RuntimeError"} }

\* self._logger.<method>(...): the attribute is read, then the method is called
LogCall(logger) ==
    CASE logger.state = "absent" -> Raise("AttributeError")
      [] logger.state = "ok" -> Ret(PyNone)
      [] logger.state = "raises" -> Raise(logger.exc)

\* logger = getattr(self, "_logger", None); if logger: logger.<method>(...)
LogIfLogger(logger) ==
    IF logger.state = "absent" THEN Ret(PyNone) ELSE LogCall(logger)

\* the text of _("unknown"), _("Forbidden") and _("full"): gettext returns the
\* message itself when no translation is bound
unknown == PyStr("unknown")
Forbidden == PyStr("Forbidden")

\* a plain mapping and a flask.jsonify response
Dict(d) == [t |-> "dict", d |-> d]
Json(d) == [t |-> "json", d |-> d]

\* bool(x)
bool(x) ==
    CASE x.t = "None" -> FALSE
      [] x.t = "bool" -> x.v
      [] x.t \in {"int", "float"} -> x.v # 0
      [] x.t = "str" -> x.v # ""
      [] OTHER -> TRUE

\* the decimal strings the settings inputs use, with their values
NumericStrings == { <<"-1", -1>>, <<"0", 0>>, <<"7", 7>>, <<"200", 200>>, <<"999", 999>> }

\* int(x): a number truncated, a decimal string parsed, anything else an error
int_of(x) ==
    CASE x.t = "int" -> Ret(PyInt(x.v))
      [] x.t = "bool" -> Ret(PyInt(IF x.v THEN 1 ELSE 0))
      [] x.t = "float" -> Ret(PyInt(int(x.v)))
      [] x.t = "str" ->
           IF \E p \in NumericStrings : p[1] = x.v
           THEN Ret(PyInt((CHOOSE p \in NumericStrings : p[1] = x.v)[2]))
           ELSE Raise("ValueError")
      [] x.t = "float_inf" -> Raise("OverflowError")
      [] OTHER -> Raise("TypeError")

\* str(x)
str(x) ==
    CASE x.t = "str" -> x.v
      [] x.t = "None" -> "None"
      [] x.t = "bool" -> IF x.v THEN "True" ELSE "False"
      [] x.t = "int" -> ToString(x.v)
      [] x.t = "float" ->
           ToString(int(x.v)) \o "." \o ToString(((x.v % Resolution) * 10) \div Resolution)
      [] x.t = "float_inf" -> "inf"
      [] OTHER -> "<object>"

-----------------------------------------------------------------------------
(* The permission gate, plugin.py *)

\* the placeholder never consults the host's capability check
_check_permissions(host) == Ret(PyBool(TRUE))

\* flask.abort(403) raises werkzeug's Forbidden when the web layer is there
_abort_forbidden(flask) ==
    IF flask = "present" THEN Raise("Forbidden")
    ELSE Ret(Dict([error |-> Forbidden]))

\* check and abort are the outcomes of self._check_permissions() and of
\* self._abort_forbidden(); None is "allow"
_handle_permission_check(check, abort, logger) ==
    LET fallback == Ret(Dict([error |-> Forbidden, uptime_available |-> PyBool(FALSE)]))
        aborted == TryExcept(abort,
                       {"AttributeError", "TypeError", "ValueError", "RuntimeError", "OSError"},
                       fallback)
        body == IF check.k # "return" THEN check
                ELSE IF ~bool(check.v) THEN aborted
                ELSE Ret(PyNone)
        logged == IF logger.state = "absent" THEN Ret(PyNone) ELSE LogCall(logger)
        handler == IF logged.k # "return" THEN logged ELSE aborted
    IN TryExcept(body, {"AttributeError", "TypeError", "ValueError"}, handler)

-----------------------------------------------------------------------------
(* Uptime information, plugin.py *)

\* the 5-tuple (seconds, uptime_full, uptime_dhm, uptime_dh, uptime_d)
Info(seconds, full, dhm, dh, d) ==
    [seconds |-> seconds, uptime |-> full, uptime_dhm |-> dhm, uptime_dh |-> dh,
     uptime_d |-> d]

UnknownInfo == Info(PyNone, unknown, unknown, unknown, unknown)

\* isinstance check, float(), the four formatters or the placeholder
FormatInfo(seconds) ==
    IF IsNumber(seconds)
    THEN Only({ Info(PyFloat(ticks), PyStr(format_uptime(ticks)),
                     PyStr(format_uptime_dhm(ticks)), PyStr(format_uptime_dh(ticks)),
                     PyStr(format_uptime_d(ticks))) : ticks \in {Ticks(seconds)} })
    ELSE UnknownInfo

\* a caller-supplied get_uptime_seconds: absent, or the outcome of calling it
NoGetter == [k |-> "absent"]

\* the result and the value _last_uptime_source has after the call
\* a _get_uptime_info that records 'custom' for every getter result
_get_uptime_info_tagging_custom(getter, os, t, source, logger) ==
    Only({
        LET res == IF getter.k = "absent" THEN resolved.out ELSE getter
            src == IF getter.k = "absent" THEN resolved.source
                   ELSE IF getter.k # "return" THEN source
                   ELSE PyStr("custom")
            body == IF res.k # "return" THEN res
                    ELSE Ret(FormatInfo(IF res.v.t = "tuple" THEN res.v.a ELSE res.v))
            logged == TryExcept(LogCall(logger), {"AttributeError", "TypeError", "ValueError"},
                                Ret(PyNone))
            handler == Then(logged, Ret(UnknownInfo))
        IN [out |-> TryExcept(body, {"AttributeError", "TypeError", "ValueError"}, handler),
            source |-> src]
        : resolved \in {_get_uptime_seconds(os, t, source)} })

_get_uptime_info(getter, os, t, source, logger) ==
    Only({
        LET res == IF getter.k = "absent" THEN resolved.out ELSE getter
            src == IF getter.k = "absent" THEN resolved.source
                   ELSE IF getter.k # "return" THEN source
                   ELSE IF getter.v.t = "tuple" THEN getter.v.b
                   ELSE PyStr("custom")
            body == IF res.k # "return" THEN res
                    ELSE Ret(FormatInfo(IF res.v.t = "tuple" THEN res.v.a ELSE res.v))
            logged == TryExcept(LogCall(logger), {"AttributeError", "TypeError", "ValueError"},
                                Ret(PyNone))
            handler == Then(logged, Ret(UnknownInfo))
        IN [out |-> TryExcept(body, {"AttributeError", "TypeError", "ValueError"}, handler),
            source |-> src]
        : resolved \in {_get_uptime_seconds(os, t, source)} })

\* psutil.Process(os.getpid()).create_time()
Process(state, exc, create) == [state |-> state, exc |-> exc, create |-> create]

Processes(t) ==
    { Process("raises", "PsutilError", 0), Process("ok", "", t - (5 * Resolution + 1)) }

_get_octoprint_uptime(os, process, t) ==
    IF os.psutil.state = "import_error" THEN Ret(PyNone)
    ELSE LET body == IF process.state = "raises" THEN Raise(process.exc)
                     ELSE LET uptime == t - process.create
                          IN IF 0 <= uptime /\ uptime < TenYears
                             THEN Ret(PyFloat(uptime))
                             ELSE Ret(PyNone)
         IN TryExcept(body, {"AttributeError", "TypeError", "ValueError", "OSError"},
                      Ret(PyNone))

_get_octoprint_uptime_info(os, process, t, logger) ==
    Only({
        LET body == IF res.k # "return" THEN res ELSE Ret(FormatInfo(res.v))
            logged == TryExcept(LogCall(logger), {"AttributeError", "TypeError", "ValueError"},
                                Ret(PyNone))
            handler == Then(logged, Ret(UnknownInfo))
        IN TryExcept(body, {"AttributeError", "TypeError", "ValueError"}, handler)
        : res \in {_get_octoprint_uptime(os, process, t)} })

-----------------------------------------------------------------------------
(* Throttled debug logging and the API's settings reads, plugin.py *)

\* a _log_debug that logs whenever debugging is enabled
_log_debug_unthrottled(logger, t, enabled, last, throttle) ==
    IF ~enabled THEN [out |-> Ret(PyNone), last |-> last, emitted |-> FALSE]
    ELSE LET inner == TryExcept(LogCall(logger),
                                {"AttributeError", "TypeError", "ValueError"}, Ret(PyNone))
         IN [out |-> TryExcept(inner, {"AttributeError", "TypeError", "ValueError"},
                               Ret(PyNone)),
             last |-> t,
             emitted |-> logger.state = "ok"]

\* the outcome, the value _last_debug_time has after the call, and whether
\* the logger emitted the line
_log_debug(logger, t, enabled, last, throttle) ==
    IF ~enabled THEN [out |-> Ret(PyNone), last |-> last, emitted |-> FALSE]
    ELSE IF (t - last) < throttle * Resolution
    THEN [out |-> Ret(PyNone), last |-> last, emitted |-> FALSE]
    ELSE LET inner == TryExcept(LogCall(logger),
                                {"AttributeError", "TypeError", "ValueError"}, Ret(PyNone))
         IN [out |-> TryExcept(inner, {"AttributeError", "TypeError", "ValueError"},
                               Ret(PyNone)),
             last |-> t,
             emitted |-> logger.state = "ok"]

\* which self._settings.get([key]) raises, and what: key "" is none of them
SettingsFailure(key, exc) == [key |-> key, exc |-> exc]

NoSettingsFailure == SettingsFailure("", "")

\* self._settings.get([key])
SettingsGet(settings, sfail, key) ==
    IF sfail.key = key THEN Raise(sfail.exc) ELSE Ret(settings[key])

\* max(1, min(val, 120)) as _get_api_settings writes it, a debug line per clamp
ClampPoll(n, logger) ==
    IF n < 1 THEN Then(LogIfLogger(logger), Ret(PyInt(1)))
    ELSE IF n > 120 THEN Then(LogIfLogger(logger), Ret(PyInt(120)))
    ELSE Ret(PyInt(n))

_get_api_settings(settings, sfail, logger) ==
    LET ATV == {"AttributeError", "TypeError", "ValueError"}
        log == LogIfLogger(logger)
        raw_nav == SettingsGet(settings, sfail, "navbar_enabled")
        nav_body == IF raw_nav.k # "return" THEN raw_nav
                    ELSE IF raw_nav.v = PyNone THEN Then(log, Ret(PyBool(TRUE)))
                    ELSE Ret(PyBool(bool(raw_nav.v)))
        navbar_enabled == TryExcept(nav_body, ATV, Then(log, Ret(PyBool(TRUE))))
        raw_fmt == SettingsGet(settings, sfail, "display_format")
        fmt_body == IF raw_fmt.k # "return" THEN raw_fmt
                    ELSE IF raw_fmt.v = PyNone THEN Then(log, Ret(PyStr("full")))
                    ELSE Ret(PyStr(str(raw_fmt.v)))
        display_format == TryExcept(fmt_body, ATV, Then(log, Ret(PyStr("full"))))
        raw_poll == SettingsGet(settings, sfail, "poll_interval_seconds")
        converted == IF raw_poll.v = PyNone \/ raw_poll.v = PyStr("")
                     THEN Then(log, Ret(PyInt(5)))
                     ELSE TryExcept(int_of(raw_poll.v), {"TypeError", "ValueError"},
                                    Then(log, Ret(PyInt(5))))
        poll_body == IF raw_poll.k # "return" THEN raw_poll
                     ELSE IF converted.k # "return" THEN converted
                     ELSE ClampPoll(converted.v.v, logger)
        poll_interval == TryExcept(poll_body, ATV, Then(log, Ret(PyInt(5))))
    IN IF navbar_enabled.k # "return" THEN navbar_enabled
       ELSE IF display_format.k # "return" THEN display_format
       ELSE IF poll_interval.k # "return" THEN poll_interval
       ELSE Ret([navbar_enabled |-> navbar_enabled.v,
                 display_format |-> display_format.v,
                 poll_interval |-> poll_interval.v])

-----------------------------------------------------------------------------
(* The get-uptime API handler, plugin.py *)

\* what one request meets: the host's capability check ("allow" or "deny"),
\* the web layer ("present" or "absent"), the logger, a caller-supplied
\* getter, the operating system, the hosting process, the settings reads
Request(host, flask, logger, getter, os, process, sfail) ==
    [host |-> host, flask |-> flask, logger |-> logger, getter |-> getter, os |-> os,
     process |-> process, sfail |-> sfail]

\* the response, and the values _last_uptime_source and _last_debug_time have
\* after the call, and whether a debug line was emitted
Result(out, source, last, emitted) ==
    [out |-> out, source |-> source, last |-> last, emitted |-> emitted]

\* a response that leaves `seconds` out
jsonify_without_seconds(info, octo, api) ==
    Json([uptime |-> info.uptime,
          uptime_dhm |-> info.uptime_dhm,
          uptime_dh |-> info.uptime_dh,
          uptime_d |-> info.uptime_d,
          octoprint_uptime |-> octo.uptime,
          octoprint_uptime_dhm |-> octo.uptime_dhm,
          octoprint_uptime_dh |-> octo.uptime_dh,
          octoprint_uptime_d |-> octo.uptime_d,
          octoprint_seconds |-> octo.seconds,
          navbar_enabled |-> api.navbar_enabled,
          display_format |-> api.display_format,
          poll_interval_seconds |-> api.poll_interval])

\* the _flask.jsonify(...) call of on_api_get
jsonify(info, octo, api) ==
    Json([uptime |-> info.uptime,
          uptime_dhm |-> info.uptime_dhm,
          uptime_dh |-> info.uptime_dh,
          uptime_d |-> info.uptime_d,
          seconds |-> info.seconds,
          octoprint_uptime |-> octo.uptime,
          octoprint_uptime_dhm |-> octo.uptime_dhm,
          octoprint_uptime_dh |-> octo.uptime_dh,
          octoprint_uptime_d |-> octo.uptime_d,
          octoprint_seconds |-> octo.seconds,
          navbar_enabled |-> api.navbar_enabled,
          display_format |-> api.display_format,
          poll_interval_seconds |-> api.poll_interval])

on_api_get(req, t, settings, source, enabled, last, throttle) ==
    Only({
       IF permission_result.k # "return" \/ permission_result.v # PyNone
       THEN Result(permission_result, source, last, FALSE)
       ELSE IF info.out.k # "return" THEN Result(info.out, info.source, last, FALSE)
       ELSE IF octo.k # "return" THEN Result(octo, info.source, last, FALSE)
       ELSE IF dbg.out.k # "return"
       THEN Result(dbg.out, info.source, dbg.last, dbg.emitted)
       ELSE IF req.flask = "present"
       THEN IF api.k # "return" THEN Result(api, info.source, dbg.last, dbg.emitted)
            ELSE Result(Ret(jsonify(info.out.v, octo.v, api.v)),
                        info.source, dbg.last, dbg.emitted)
       ELSE Result(Ret(Dict([uptime |-> info.out.v.uptime,
                             octoprint_uptime |-> octo.v.uptime])),
                   info.source, dbg.last, dbg.emitted)
       : permission_result \in
             {_handle_permission_check(_check_permissions(req.host),
                                       _abort_forbidden(req.flask), req.logger)},
         info \in {_get_uptime_info(req.getter, req.os, t, source, req.logger)},
         octo \in {_get_octoprint_uptime_info(req.os, req.process, t, req.logger)},
         dbg \in {_log_debug(req.logger, t, enabled, last, throttle)},
         api \in {_get_api_settings(settings, req.sfail, req.logger)} })

-----------------------------------------------------------------------------
(* Throttled debug logging and the get-uptime API handler, __init__.py *)

\* the values _last_debug_time and _last_throttle_notice have after the call,
\* and whether the logger emitted the debug line; every exception is swallowed
init_log_debug(logger, t, enabled, last, throttle, notice) ==
    IF ~enabled THEN [last |-> last, notice |-> notice, emitted |-> FALSE]
    ELSE IF (t - last) < throttle * Resolution
    THEN [last |-> last,
          notice |-> IF (t - notice) >= throttle * Resolution THEN t ELSE notice,
          emitted |-> FALSE]
    ELSE [last |-> t, notice |-> notice, emitted |-> logger.state = "ok"]

\* the permission block of on_api_get: the abort's exception becomes a
\* PermissionError, which the enclosing `except Exception: pass` swallows
init_permission_block(host, flask) ==
    LET abort == IF flask = "present" THEN Raise("Forbidden")
                 ELSE Raise("ModuleNotFoundError")
        inner == IF host = "deny"
                 THEN TryExcept(abort, {"Exception"}, Raise("PermissionError"))
                 ELSE Ret(PyNone)
    IN TryExcept(inner, {"Exception"}, Ret(PyNone))

\* x or 5
OrDefault(x, default) == IF bool(x) THEN x ELSE default

init_on_api_get(req, t, settings, enabled, last, throttle, notice) ==
    Only({
    LET computed == IF permission.k # "return" THEN permission
                    ELSE IF seconds.k # "return" THEN seconds
                    ELSE Ret(Info(seconds.v,
                                  PyStr(_format_uptime(Ticks(seconds.v))),
                                  PyStr(_format_uptime_dhm(Ticks(seconds.v))),
                                  PyStr(_format_uptime_dh(Ticks(seconds.v))),
                                  PyStr(_format_uptime_d(Ticks(seconds.v)))))
        info == TryExcept(computed, {"Exception"},
                          Ret(Info(PyInt(0), unknown, unknown, unknown, unknown)))
        raw_nav == SettingsGet(settings, req.sfail, "navbar_enabled")
        navbar_enabled == TryExcept(Then(raw_nav, Ret(PyBool(bool(raw_nav.v)))),
                                    {"Exception"}, Ret(PyBool(TRUE)))
        raw_fmt == SettingsGet(settings, req.sfail, "display_format")
        display_format == TryExcept(Then(raw_fmt, Ret(PyStr(str(raw_fmt.v)))),
                                    {"Exception"}, Ret(PyStr("full")))
        raw_poll == SettingsGet(settings, req.sfail, "poll_interval_seconds")
        poll_interval == TryExcept(Then(raw_poll, int_of(OrDefault(raw_poll.v, PyInt(5)))),
                                   {"Exception"}, Ret(PyInt(5)))
        ran == permission.k = "return" /\ seconds.k = "return"
    IN IF info.k = "hang"
       THEN [out |-> Hang, last |-> last, notice |-> notice, emitted |-> FALSE]
       ELSE [out |-> IF req.flask = "present"
                     THEN Ret(Json([uptime |-> info.v.uptime,
                                    uptime_dhm |-> info.v.uptime_dhm,
                                    uptime_dh |-> info.v.uptime_dh,
                                    uptime_d |-> info.v.uptime_d,
                                    seconds |-> info.v.seconds,
                                    navbar_enabled |-> navbar_enabled.v,
                                    display_format |-> display_format.v,
                                    poll_interval_seconds |-> poll_interval.v]))
                     ELSE Ret(Dict([uptime |-> info.v.uptime])),
             last |-> IF ran THEN dbg.last ELSE last,
             notice |-> IF ran THEN dbg.notice ELSE notice,
             emitted |-> ran /\ dbg.emitted]
    : permission \in {init_permission_block(req.host, req.flask)},
      seconds \in {init_get_uptime_seconds(req.os, t)},
      dbg \in {init_log_debug(req.logger, t, enabled, last, throttle, notice)} })

-----------------------------------------------------------------------------
(* Settings: the defaults, and the refresh of the cached fields *)

Settings(debug, navbar_enabled, show_octoprint_uptime, display_format, debug_throttle_seconds, poll_interval_seconds) ==
    [debug |-> debug, navbar_enabled |-> navbar_enabled,
     show_octoprint_uptime |-> show_octoprint_uptime, display_format |-> display_format,
     debug_throttle_seconds |-> debug_throttle_seconds,
     poll_interval_seconds |-> poll_interval_seconds]

get_settings_defaults ==
    Settings(PyBool(FALSE), PyBool(TRUE), PyBool(TRUE), PyStr("full"), PyInt(60), PyInt(5))

\* the fields after self._update_internal_state(), and its outcome: the four
\* assignments run in order, so a failing int() leaves the first three done
_update_internal_state(settings, old) ==
    LET raw == OrDefault(settings["debug_throttle_seconds"], PyInt(60))
        seconds == int_of(raw)
    IN [out |-> Then(seconds, Ret(PyNone)),
        fields |-> << bool(settings["debug"]),
                      bool(settings["navbar_enabled"]),
                      str(settings["display_format"]),
                      IF seconds.k = "return" THEN seconds.v.v ELSE old[4] >>]

_safe_update_internal_state(settings, old, logger) ==
    LET updated == _update_internal_state(settings, old)
    IN [out |-> TryExcept(updated.out, {"AttributeError", "KeyError", "ValueError"},
                          LogIfLogger(logger)),
        fields |-> updated.fields]

-----------------------------------------------------------------------------
(* Saving settings: the sanitizer of the two integer fields *)

\* isinstance(x, dict)
IsDict(x) == x.t = "dict"

\* a clamp that folds the excess back instead of cutting it off
Clamp_folding(val) == IF val < 1 THEN 1 - val ELSE IF val > 120 THEN val - 120 ELSE val

\* max(1, min(val, 120))
Clamp(val) == IF val < 1 THEN 1 ELSE IF val > 120 THEN 120 ELSE val

\* the value one key of the loop writes: plugin.py:448-455
SanitizedValue(raw, default) ==
    LET converted == IF raw = PyNone THEN Raise("ValueError") ELSE int_of(raw)
        val == TryExcept(converted, {"ValueError", "TypeError"}, Ret(PyInt(default)))
    IN IF val.k # "return" THEN val ELSE Ret(PyInt(Clamp(val.v.v)))

\* a turn of the loop that writes the default for a key the block lacks
SanitizeKey_filling_missing(done, key, default) ==
    IF done.out.k # "return" THEN done
    ELSE IF key \notin DOMAIN done.cfg
    THEN [out |-> Ret(PyNone), cfg |-> done.cfg @@ (key :> PyInt(default))]
    ELSE Only({ IF val.k # "return" THEN [out |-> val, cfg |-> done.cfg]
                ELSE [out |-> Ret(PyNone), cfg |-> [done.cfg EXCEPT ![key] = val.v]]
                : val \in {SanitizedValue(done.cfg[key], default)} })

\* one turn of the loop over (key, default): done is the loop so far, the
\* outcome and the block uptime_cfg as it stands
SanitizeKey(done, key, default) ==
    IF done.out.k # "return" \/ key \notin DOMAIN done.cfg THEN done
    ELSE Only({ IF val.k # "return" THEN [out |-> val, cfg |-> done.cfg]
                ELSE [out |-> Ret(PyNone), cfg |-> [done.cfg EXCEPT ![key] = val.v]]
                : val \in {SanitizedValue(done.cfg[key], default)} })

\* a sanitizer that calls data.get without looking at what data is
_validate_and_sanitize_settings_unguarded(data) ==
    IF ~IsDict(data) THEN [out |-> Raise("AttributeError"), data |-> data]
    ELSE IF "plugins" \notin DOMAIN data.d THEN [out |-> Ret(PyNone), data |-> data]
    ELSE IF ~IsDict(data.d["plugins"]) THEN [out |-> Raise("AttributeError"), data |-> data]
    ELSE IF "octoprint_uptime" \notin DOMAIN data.d["plugins"].d
    THEN [out |-> Ret(PyNone), data |-> data]
    ELSE IF ~IsDict(data.d["plugins"].d["octoprint_uptime"])
    THEN [out |-> Raise("TypeError"), data |-> data]
    ELSE Only({ [out |-> done.out,
                 data |-> [data EXCEPT !.d["plugins"].d["octoprint_uptime"].d = done.cfg]]
                : done \in
                    {SanitizeKey(
                        SanitizeKey([out |-> Ret(PyNone),
                                     cfg |-> data.d["plugins"].d["octoprint_uptime"].d],
                                    "debug_throttle_seconds", 60),
                        "poll_interval_seconds", 5)} })

\* the outcome, and data as the call leaves it: the block is changed in place
_validate_and_sanitize_settings(data) ==
    IF ~IsDict(data) \/ "plugins" \notin DOMAIN data.d THEN [out |-> Ret(PyNone), data |-> data]
    ELSE IF ~IsDict(data.d["plugins"]) \/ "octoprint_uptime" \notin DOMAIN data.d["plugins"].d
    THEN [out |-> Ret(PyNone), data |-> data]
    ELSE IF ~IsDict(data.d["plugins"].d["octoprint_uptime"])
    THEN [out |-> Ret(PyNone), data |-> data]
    ELSE Only({ [out |-> done.out,
                 data |-> [data EXCEPT !.d["plugins"].d["octoprint_uptime"].d = done.cfg]]
                : done \in
                    {SanitizeKey(
                        SanitizeKey([out |-> Ret(PyNone),
                                     cfg |-> data.d["plugins"].d["octoprint_uptime"].d],
                                    "debug_throttle_seconds", 60),
                        "poll_interval_seconds", 5)} })

\* __init__.py:304-321: every exception of the conversion gives the default
init_SanitizedValue(raw, default) ==
    LET converted == IF raw = PyNone THEN Raise("ValueError") ELSE int_of(raw)
        val == TryExcept(converted, {"Exception"}, Ret(PyInt(default)))
    IN Ret(PyInt(Clamp(val.v.v)))

\* __init__.py:293-322: the sanitizing block of on_settings_save
init_validate_and_sanitize_settings(data) ==
    IF ~IsDict(data) \/ "plugins" \notin DOMAIN data.d THEN [out |-> Ret(PyNone), data |-> data]
    ELSE IF ~IsDict(data.d["plugins"]) \/ "octoprint_uptime" \notin DOMAIN data.d["plugins"].d
    THEN [out |-> Ret(PyNone), data |-> data]
    ELSE IF ~IsDict(data.d["plugins"].d["octoprint_uptime"])
    THEN [out |-> Ret(PyNone), data |-> data]
    ELSE LET cfg == data.d["plugins"].d["octoprint_uptime"].d
             new == [k \in DOMAIN cfg |->
                       IF k = "debug_throttle_seconds" THEN init_SanitizedValue(cfg[k], 60).v
                       ELSE IF k = "poll_interval_seconds"
                       THEN init_SanitizedValue(cfg[k], 5).v
                       ELSE cfg[k]]
         IN [out |-> Ret(PyNone),
             data |-> [data EXCEPT !.d["plugins"].d["octoprint_uptime"].d = new]]

-----------------------------------------------------------------------------
(* Saving settings: on_settings_save and its helpers *)

\* SettingsPluginBase.on_settings_save as the class finds it: absent, saving,
\* or raising
BaseSave(k, exc) == [k |-> k, exc |-> exc]

BaseSaves ==
    { BaseSave("absent", ""), BaseSave("ok", ""),
      BaseSave("raises", "TypeError"), BaseSave("raises", "RuntimeError") }

\* the store after the base class saved data: the fields of the
\* plugins -> octoprint_uptime block replace the stored ones
Persist(settings, data) ==
    IF ~IsDict(data) \/ "plugins" \notin DOMAIN data.d THEN settings
    ELSE IF ~IsDict(data.d["plugins"]) \/ "octoprint_uptime" \notin DOMAIN data.d["plugins"].d
    THEN settings
    ELSE IF ~IsDict(data.d["plugins"].d["octoprint_uptime"]) THEN settings
    ELSE [k \in DOMAIN settings |->
            IF k \in DOMAIN data.d["plugins"].d["octoprint_uptime"].d
            THEN data.d["plugins"].d["octoprint_uptime"].d[k]
            ELSE settings[k]]

_log_settings_save_data(logger) ==
    IF logger.state = "absent" THEN Ret(PyNone)
    ELSE TryExcept(LogCall(logger), {"AttributeError", "TypeError", "ValueError"}, Ret(PyNone))

\* the outcome and the store after it
_call_base_on_settings_save(base, settings, data) ==
    CASE base.k = "absent" -> [out |-> Ret(PyNone), settings |-> settings]
      [] base.k = "ok" -> [out |-> Ret(PyNone), settings |-> Persist(settings, data)]
      [] base.k = "raises" ->
           [out |-> TryExcept(Raise(base.exc), {"AttributeError", "TypeError", "ValueError"},
                              Ret(PyNone)),
            settings |-> settings]

_log_settings_after_save(logger, prev_navbar, navbar_enabled) ==
    IF logger.state = "absent" THEN Ret(PyNone)
    ELSE Then(TryExcept(LogCall(logger), {"AttributeError", "TypeError", "ValueError"},
                        Ret(PyNone)),
              IF prev_navbar # navbar_enabled
              THEN TryExcept(LogCall(logger), {"AttributeError", "TypeError", "ValueError"},
                             Ret(PyNone))
              ELSE Ret(PyNone))

\* what a save leaves behind: its outcome, data as it stands, the store, the
\* cached fields, and the steps that ran, in their order
Saved(out, data, settings, fields, steps) ==
    [out |-> out, data |-> data, settings |-> settings, fields |-> fields, steps |-> steps]

\* a save that hands data to the base class first and sanitizes afterwards
on_settings_save_persisting_first(data, settings, old, logger, base) ==
    Only({ IF b.out.k # "return" THEN Saved(b.out, data, b.settings, old, <<"base">>)
           ELSE Only({
             IF s.out.k # "return"
             THEN Saved(s.out, s.data, b.settings, old, <<"base", "sanitize">>)
             ELSE Only({
               Saved(Then(u.out, _log_settings_after_save(logger, old[2], u.fields[2])),
                     s.data, b.settings, u.fields, <<"base", "sanitize", "refresh">>)
               : u \in {_update_internal_state(b.settings, old)} })
             : s \in {_validate_and_sanitize_settings(data)} })
           : b \in {_call_base_on_settings_save(base, settings, data)} })

on_settings_save(data, settings, old, logger, base) ==
    Only({ IF s.out.k # "return" THEN Saved(s.out, s.data, settings, old, <<"sanitize">>)
           ELSE Only({
             IF l.k # "return" THEN Saved(l, s.data, settings, old, <<"sanitize", "log">>)
             ELSE Only({
               IF b.out.k # "return"
               THEN Saved(b.out, s.data, b.settings, old, <<"sanitize", "log", "base">>)
               ELSE Only({
                 Saved(Then(u.out, _log_settings_after_save(logger, old[2], u.fields[2])),
                       s.data, b.settings, u.fields,
                       <<"sanitize", "log", "base", "refresh">>)
                 : u \in {_update_internal_state(b.settings, old)} })
               : b \in {_call_base_on_settings_save(base, settings, s.data)} })
             : l \in {_log_settings_save_data(logger)} })
           : s \in {_validate_and_sanitize_settings(data)} })

\* __init__.py:323-330: the base class's save under `except Exception`
init_call_base_on_settings_save(base, settings, data) ==
    IF base.k = "ok" THEN Persist(settings, data) ELSE settings

\* __init__.py:288-394: every step but the refresh of the fields is guarded
init_on_settings_save(data, settings, old, logger, base) ==
    Only({ Only({ Saved(u.out, s.data, b, u.fields,
                        <<"sanitize", "log", "base", "refresh">>)
                  : u \in {_update_internal_state(b, old)} })
           : s \in {init_validate_and_sanitize_settings(data)},
             b \in {init_call_base_on_settings_save(
                        base, settings, init_validate_and_sanitize_settings(data).data)} })

\* the base class's on_settings_initialized hook: absent, or the number of
\* positional parameters inspect.signature reports (-1: it cannot be
\* inspected) and the outcome of calling it
NoHook == [k |-> "absent"]

Hook(params, out) == [k |-> "hook", params |-> params, out |-> out]

Hooks ==
    { NoHook, Hook(1, Ret(PyNone)), Hook(0, Raise("RuntimeError")),
      Hook(1, Raise("KeyError")), Hook(2, Ret(PyNone)), Hook(-1, Ret(PyNone)) }

_get_hook_positional_param_count(hook, logger) ==
    IF hook.params = -1 THEN Then(LogIfLogger(logger), Ret(PyNone))
    ELSE Ret(PyInt(hook.params))

_safe_invoke_hook(hook, logger) ==
    TryExcept(hook.out, {"RuntimeError", "AttributeError", "TypeError", "ValueError"},
              LogIfLogger(logger))

_invoke_settings_hook(hook, logger) ==
    LET param_count == _get_hook_positional_param_count(hook, logger)
    IN IF param_count.k # "return" THEN param_count
       ELSE IF param_count.v = PyNone THEN Ret(PyNone)
       ELSE IF param_count.v.v \notin {0, 1} THEN LogIfLogger(logger)
       ELSE _safe_invoke_hook(hook, logger)

on_settings_initialized(settings, old, hook, logger) ==
    LET updated == _safe_update_internal_state(settings, old, logger)
    IN [out |-> IF updated.out.k # "return" THEN updated.out
                ELSE IF hook.k = "absent" THEN Ret(PyNone)
                ELSE _invoke_settings_hook(hook, logger),
        fields |-> updated.fields]

\* __init__.py: the fields are read without a guard, the logger under one
init_on_settings_initialized(settings, old) ==
    LET updated == _update_internal_state(settings, old)
    IN [out |-> updated.out, fields |-> updated.fields]

-----------------------------------------------------------------------------
(* The state machine: one instance of either class, called by the host and *)
(* by its tests one call at a time.  A call runs to its end in one step    *)
(* and leaves its inputs and its outcome in `call`; Return hands the       *)
(* outcome to the caller.                                                  *)

NoCall == [op |-> "none"]

\* the settings stores the host hands to the plugin: the defaults, and debug
\* logging switched on with a throttle of one tick interval, the navbar and
\* the process uptime switched off
Stores ==
    { get_settings_defaults,
      Settings(PyBool(TRUE), PyBool(FALSE), PyBool(FALSE), PyStr("dhm"),
               PyInt(TickSeconds), PyStr("200")) }

Hosts == {"allow", "deny"}
Flasks == {"present", "absent"}

\* caller-supplied getters: none, or one returning None, a number (one of
\* them below zero), a string, a (seconds, tag) pair with or without a
\* number, or raising
Getters ==
    { NoGetter, Ret(PyNone), Ret(PyInt(200)), Ret(PyInt(-5)), Ret(PyStr("soon")),
      Ret(PyTuple2(PyInt(200), PyStr("sensor"))),
      Ret(PyTuple2(PyNone, PyStr("sensor"))),
      Raise("TypeError"), Raise("RuntimeError") }

SettingsFailures ==
    { NoSettingsFailure, SettingsFailure("navbar_enabled", "AttributeError"),
      SettingsFailure("poll_interval_seconds", "KeyError") }

\* the operating systems API requests are tried on: the command is not run
\* by plugin.py, and __init__.py is tried with every command
ApiProcFiles == { ProcFile("missing", 0), ProcFile("empty", 0),
                  ProcFile("ok", 3601 * Resolution + 1) }

ApiPsutils(t) ==
    { Psutil("import_error", "ModuleNotFoundError", 0),
      Psutil("boot_raises", "PsutilError", 0),
      Psutil("ok", "", t + 1),
      Psutil("ok", "", t - (1234 * Resolution + 1)) }

ApiOSEnvs(t) ==
    { OS(p, q, UptimeCmd("missing", 0)) : p \in ApiProcFiles, q \in ApiPsutils(t) }

\* inputs a call does not read are held at one value
IdleOS == OS(ProcFile("missing", 0), Psutil("import_error", "ModuleNotFoundError", 0),
             UptimeCmd("missing", 0))

ApiRequests(t) ==
    { Request(h, f, l, g, o, p, sf) :
        h \in Hosts, f \in Flasks, l \in Loggers, g \in Getters, o \in ApiOSEnvs(t),
        p \in Processes(t), sf \in SettingsFailures }

Init ==
    /\ impl \in {"plugin", "init"}
    /\ _settings \in Stores
    /\ _debug_enabled = FALSE
    /\ _navbar_enabled = TRUE
    /\ _display_format = "full"
    /\ _last_debug_time = 0
    /\ _last_throttle_notice = 0
    /\ _debug_throttle_seconds = 60
    /\ _last_uptime_source = PyNone
    /\ now = StartTime * Resolution
    /\ pc = "idle"
    /\ call = NoCall

\* time passes between calls
Tick ==
    /\ pc = "idle"
    /\ now < (StartTime + MaxNow * TickSeconds) * Resolution
    /\ now' = now + TickSeconds * Resolution
    /\ UNCHANGED << _settings, cached, stamps, _last_uptime_source, impl, pc, call >>

\* the caller takes the outcome
Return ==
    /\ pc = "done"
    /\ call.out.k # "hang"
    /\ pc' = "idle"
    /\ call' = NoCall
    /\ UNCHANGED << _settings, cached, stamps, _last_uptime_source, impl, now >>

(* plugin.py *)

GetUptimeSeconds ==
    /\ pc = "idle" /\ impl = "plugin"
    /\ \E os \in OSEnvs(now) :
         \E r \in {_get_uptime_seconds(os, now, _last_uptime_source)} :
            /\ call' = [op |-> "_get_uptime_seconds", os |-> os, out |-> r.out]
            /\ _last_uptime_source' = r.source
    /\ pc' = "done"
    /\ UNCHANGED << _settings, cached, stamps, impl, now >>

\* the outcomes the tests give self._check_permissions() and
\* self._abort_forbidden() next to the ones the methods have
CheckOutcomes ==
    { _check_permissions(h) : h \in Hosts }
    \cup { Ret(PyBool(FALSE)), Raise("AttributeError"), Raise("RuntimeError") }

AbortOutcomes ==
    { _abort_forbidden(f) : f \in Flasks } \cup { Raise("RuntimeError") }

HandlePermissionCheck ==
    /\ pc = "idle" /\ impl = "plugin"
    /\ \E check \in CheckOutcomes, abort \in AbortOutcomes, logger \in Loggers :
         call' = [op |-> "_handle_permission_check", check |-> check, abort |-> abort,
                  logger |-> logger,
                  out |-> _handle_permission_check(check, abort, logger)]
    /\ pc' = "done"
    /\ UNCHANGED << _settings, cached, stamps, _last_uptime_source, impl, now >>

GetUptimeInfo ==
    /\ pc = "idle" /\ impl = "plugin"
    /\ \E getter \in Getters, os \in ApiOSEnvs(now), logger \in Loggers :
         /\ \E r \in {_get_uptime_info(getter, os, now, _last_uptime_source, logger)} :
               /\ call' = [op |-> "_get_uptime_info", getter |-> getter, os |-> os,
                           logger |-> logger, out |-> r.out]
               /\ _last_uptime_source' = r.source
    /\ pc' = "done"
    /\ UNCHANGED << _settings, cached, stamps, impl, now >>

OnApiGet ==
    /\ pc = "idle" /\ impl = "plugin"
    /\ \E req \in ApiRequests(now) :
         /\ req.getter # NoGetter => req.os = IdleOS
         /\ req.flask = "absent" => req.sfail = NoSettingsFailure
         /\ \E r \in {on_api_get(req, now, _settings, _last_uptime_source, _debug_enabled,
                                _last_debug_time, _debug_throttle_seconds)} :
               /\ call' = [op |-> "on_api_get", req |-> req, out |-> r.out,
                           emitted |-> r.emitted]
               /\ _last_uptime_source' = r.source
               /\ _last_debug_time' = r.last
    /\ pc' = "done"
    /\ UNCHANGED << _settings, cached, _last_throttle_notice, impl, now >>

OnSettingsInitialized ==
    /\ pc = "idle" /\ impl = "plugin"
    /\ \E hook \in Hooks, logger \in Loggers :
         \E r \in {on_settings_initialized(_settings, cached, hook, logger)} :
            /\ call' = [op |-> "on_settings_initialized", hook |-> hook,
                        logger |-> logger, out |-> r.out]
            /\ _debug_enabled' = r.fields[1]
            /\ _navbar_enabled' = r.fields[2]
            /\ _display_format' = r.fields[3]
            /\ _debug_throttle_seconds' = r.fields[4]
    /\ pc' = "done"
    /\ UNCHANGED << _settings, stamps, _last_uptime_source, impl, now >>

(* __init__.py *)

InitGetUptimeSeconds ==
    /\ pc = "idle" /\ impl = "init"
    /\ \E os \in OSEnvs(now) :
         call' = [op |-> "init_get_uptime_seconds", os |-> os,
                  out |-> init_get_uptime_seconds(os, now)]
    /\ pc' = "done"
    /\ UNCHANGED << _settings, cached, stamps, _last_uptime_source, impl, now >>

InitOnApiGet ==
    /\ pc = "idle" /\ impl = "init"
    /\ \E req \in ApiRequests(now), cmd \in UptimeCmds(now) :
         /\ req.getter = NoGetter
         /\ req.process = Process("raises", "PsutilError", 0)
         /\ req.flask = "absent" => req.sfail = NoSettingsFailure
         /\ \E r \in {init_on_api_get([req EXCEPT !.os.cmd = cmd], now, _settings,
                                     _debug_enabled, _last_debug_time,
                                     _debug_throttle_seconds, _last_throttle_notice)} :
               /\ call' = [op |-> "init_on_api_get", req |-> [req EXCEPT !.os.cmd = cmd],
                           out |-> r.out, emitted |-> r.emitted]
               /\ _last_debug_time' = r.last
               /\ _last_throttle_notice' = r.notice
    /\ pc' = "done"
    /\ UNCHANGED << _settings, cached, _last_uptime_source, impl, now >>

InitOnSettingsInitialized ==
    /\ pc = "idle" /\ impl = "init"
    /\ \E r \in {init_on_settings_initialized(_settings, cached)} :
          /\ call' = [op |-> "init_on_settings_initialized", out |-> r.out]
          /\ _debug_enabled' = r.fields[1]
          /\ _navbar_enabled' = r.fields[2]
          /\ _display_format' = r.fields[3]
          /\ _debug_throttle_seconds' = r.fields[4]
    /\ _last_debug_time' = 0
    /\ _last_throttle_notice' = 0
    /\ pc' = "done"
    /\ UNCHANGED << _settings, _last_uptime_source, impl, now >>

Next ==
    \/ Tick
    \/ Return
    \/ GetUptimeSeconds
    \/ HandlePermissionCheck
    \/ GetUptimeInfo
    \/ OnApiGet
    \/ OnSettingsInitialized
    \/ InitGetUptimeSeconds
    \/ InitOnApiGet
    \/ InitOnSettingsInitialized

Spec == Init /\ [][Next]_vars

-----------------------------------------------------------------------------
(* The API settings specification: _get_api_settings on its own and inside  *)
(* a request, over stores with missing, out-of-range and non-numeric values *)

\* a store without any value: every read gives None
EmptyStore == Settings(PyNone, PyNone, PyNone, PyNone, PyNone, PyNone)

ApiStores ==
    Stores \cup
    { EmptyStore,
      Settings(PyBool(FALSE), PyBool(FALSE), PyBool(TRUE), PyStr("dh"), PyInt(60), PyStr("0")),
      Settings(PyBool(FALSE), PyBool(TRUE), PyBool(TRUE), PyStr("d"), PyInt(60), PyStr("bad")),
      Settings(PyBool(FALSE), PyBool(TRUE), PyBool(TRUE), PyStr("full"), PyInt(60), PyStr("")) }

ApiSettingsFailures ==
    SettingsFailures
    \cup { SettingsFailure(k, "AttributeError") :
             k \in {"display_format", "poll_interval_seconds"} }

InitApi ==
    /\ impl \in {"plugin", "init"}
    /\ _settings \in ApiStores
    /\ _debug_enabled = FALSE
    /\ _navbar_enabled = TRUE
    /\ _display_format = "full"
    /\ _last_debug_time = 0
    /\ _last_throttle_notice = 0
    /\ _debug_throttle_seconds = 60
    /\ _last_uptime_source = PyNone
    /\ now = StartTime * Resolution
    /\ pc = "idle"
    /\ call = NoCall

GetApiSettings ==
    /\ pc = "idle" /\ impl = "plugin"
    /\ \E sfail \in ApiSettingsFailures, logger \in Loggers :
         call' = [op |-> "_get_api_settings", sfail |-> sfail, logger |-> logger,
                  out |-> _get_api_settings(_settings, sfail, logger)]
    /\ pc' = "done"
    /\ UNCHANGED << _settings, cached, stamps, _last_uptime_source, impl, now >>

NextApi ==
    \/ Return
    \/ GetApiSettings
    \/ OnApiGet
    \/ InitOnApiGet

SpecApi == InitApi /\ [][NextApi]_vars

-----------------------------------------------------------------------------
(* The race specification: two get-uptime requests of plugin.py served by   *)
(* two threads of one plugin object at the same time.  The object's logger, *)
(* its settings and the operating system are the same for both; each thread *)
(* runs on_api_get in four steps, and the steps of the two interleave.      *)
(* `call` holds what the threads share with the observer: the request, the  *)
(* fields as they were when the first thread started, and both threads.     *)

\* a thread: where it is, its locals, its outcome, whether it emitted a line
Thread(at, info, octo, out, emitted) ==
    [at |-> at, info |-> info, octo |-> octo, out |-> out, emitted |-> emitted]

NewThread == Thread("start", UnknownInfo, UnknownInfo, Ret(PyNone), FALSE)

RaceRequests(t) ==
    { Request("allow", f, l, NoGetter, o, p, NoSettingsFailure) :
        f \in Flasks, l \in Loggers,
        o \in { OS(ProcFile("ok", 3601 * Resolution + 1),
                   Psutil("import_error", "ModuleNotFoundError", 0), UptimeCmd("missing", 0)),
                OS(ProcFile("missing", 0), Psutil("boot_raises", "PsutilError", 0),
                   UptimeCmd("missing", 0)) },
        p \in Processes(t) }

\* two requests arrive
RaceBegin ==
    /\ pc = "idle" /\ impl = "plugin"
    /\ \E req \in RaceRequests(now) :
         call' = [op |-> "race", req |-> req, source |-> _last_uptime_source,
                  last |-> _last_debug_time, threads |-> << NewThread, NewThread >>]
    /\ pc' = "race"
    /\ UNCHANGED << _settings, cached, stamps, _last_uptime_source, impl, now >>

\* plugin.py:664-675: the permission check and the two uptime resolutions
RaceResolve ==
    /\ pc = "race"
    /\ \E i \in 1..2 :
         /\ call.threads[i].at = "start"
         /\ \E permission_result \in
                 {_handle_permission_check(_check_permissions(call.req.host),
                                           _abort_forbidden(call.req.flask), call.req.logger)},
               info \in {_get_uptime_info(call.req.getter, call.req.os, now,
                                          _last_uptime_source, call.req.logger)},
               octo \in {_get_octoprint_uptime_info(call.req.os, call.req.process, now,
                                                    call.req.logger)} :
              IF permission_result.k # "return" \/ permission_result.v # PyNone
              THEN /\ call' = [call EXCEPT !.threads[i].at = "done",
                                           !.threads[i].out = permission_result]
                   /\ UNCHANGED _last_uptime_source
              ELSE IF info.out.k # "return"
              THEN /\ call' = [call EXCEPT !.threads[i].at = "done",
                                           !.threads[i].out = info.out]
                   /\ _last_uptime_source' = info.source
              ELSE IF octo.k # "return"
              THEN /\ call' = [call EXCEPT !.threads[i].at = "done",
                                           !.threads[i].out = octo]
                   /\ _last_uptime_source' = info.source
              ELSE /\ call' = [call EXCEPT !.threads[i].at = "check",
                                           !.threads[i].info = info.out.v,
                                           !.threads[i].octo = octo.v]
                   /\ _last_uptime_source' = info.source
    /\ UNCHANGED << _settings, cached, stamps, impl, now, pc >>

\* plugin.py:591-596: _log_debug reads _debug_enabled and _last_debug_time
RaceCheck ==
    /\ pc = "race"
    /\ \E i \in 1..2 :
         /\ call.threads[i].at = "check"
         /\ call' = [call EXCEPT !.threads[i].at =
                        IF ~_debug_enabled THEN "respond"
                        ELSE IF (now - _last_debug_time) < _debug_throttle_seconds * Resolution
                        THEN "respond"
                        ELSE "write"]
    /\ UNCHANGED << _settings, cached, stamps, _last_uptime_source, impl, now, pc >>

\* plugin.py:597-603: _log_debug writes _last_debug_time and logs; this is
\* _log_debug past its two checks
RaceWrite ==
    /\ pc = "race"
    /\ \E i \in 1..2 :
         /\ call.threads[i].at = "write"
         /\ \E dbg \in {_log_debug(call.req.logger, now, TRUE, 0, 0)} :
              call' = IF dbg.out.k # "return"
                      THEN [call EXCEPT !.threads[i].at = "done",
                                        !.threads[i].out = dbg.out,
                                        !.threads[i].emitted = dbg.emitted]
                      ELSE [call EXCEPT !.threads[i].at = "respond",
                                        !.threads[i].emitted = dbg.emitted]
    /\ _last_debug_time' = now
    /\ UNCHANGED << _settings, cached, _last_throttle_notice, _last_uptime_source, impl,
                    now, pc >>

\* plugin.py:677-696: the settings reads and the response
RaceRespond ==
    /\ pc = "race"
    /\ \E i \in 1..2 :
         /\ call.threads[i].at = "respond"
         /\ \E api \in {_get_api_settings(_settings, call.req.sfail, call.req.logger)} :
              call' = [call EXCEPT
                         !.threads[i].at = "done",
                         !.threads[i].out =
                            IF call.req.flask = "present"
                            THEN IF api.k # "return" THEN api
                                 ELSE Ret(jsonify(call.threads[i].info, call.threads[i].octo,
                                                  api.v))
                            ELSE Ret(Dict([uptime |-> call.threads[i].info.uptime,
                                           octoprint_uptime |-> call.threads[i].octo.uptime]))]
    /\ UNCHANGED << _settings, cached, stamps, _last_uptime_source, impl, now, pc >>

\* both callers have their outcomes
RaceEnd ==
    /\ pc = "race"
    /\ \A i \in 1..2 : call.threads[i].at = "done"
    /\ pc' = "idle"
    /\ call' = NoCall
    /\ UNCHANGED << _settings, cached, stamps, _last_uptime_source, impl, now >>

NextRace ==
    \/ Tick
    \/ OnSettingsInitialized
    \/ Return
    \/ RaceBegin
    \/ RaceResolve
    \/ RaceCheck
    \/ RaceWrite
    \/ RaceRespond
    \/ RaceEnd

SpecRace == Init /\ [][NextRace]_vars

-----------------------------------------------------------------------------
(* The settings specification: the sanitizer on its own, applied once and  *)
(* again, and saves by either class, over the data a save can be handed    *)

EmptyDict == [k \in {} |-> PyNone]

\* raw values of an integer field
RawValues ==
    { PyNone, PyInt(-1), PyInt(0), PyInt(1), PyInt(7), PyInt(120), PyInt(200), PyInt(999),
      PyStr("0"), PyStr("200"), PyStr("bad"), PyStr(""), PyFloat(7 * Resolution + 1),
      PyBool(TRUE), PyFloatInf, PyList }

SaveRawValues == { PyNone, PyInt(0), PyInt(7), PyInt(999), PyStr("200"), PyStr("bad"), PyFloatInf }

\* the plugins -> octoprint_uptime blocks: each integer field absent or raw,
\* with or without another field
Blocks(raws) ==
    { t @@ p @@ o :
        t \in {EmptyDict} \cup { "debug_throttle_seconds" :> r : r \in raws },
        p \in {EmptyDict} \cup { "poll_interval_seconds" :> r : r \in raws },
        o \in {EmptyDict, "navbar_enabled" :> PyBool(FALSE)} }

WithBlock(block) == Dict("plugins" :> Dict("octoprint_uptime" :> Dict(block)))

\* data without a plugins -> octoprint_uptime mapping
BadShapes ==
    { PyNone, PyInt(7), PyList, Dict(EmptyDict),
      Dict("poll_interval_seconds" :> PyInt(999)),
      Dict("plugins" :> PyNone), Dict("plugins" :> PyList), Dict("plugins" :> Dict(EmptyDict)),
      Dict("plugins" :> Dict("other" :> Dict("poll_interval_seconds" :> PyInt(999)))),
      Dict("plugins" :> Dict("octoprint_uptime" :> PyNone)),
      Dict("plugins" :> Dict("octoprint_uptime" :> PyList)) }

\* the block next to another plugin's settings and another top-level section
Crowded(block) ==
    Dict(("plugins" :> Dict(("octoprint_uptime" :> Dict(block))
                            @@ ("other" :> Dict("poll_interval_seconds" :> PyInt(999)))))
         @@ ("appearance" :> Dict("name" :> PyStr("printer"))))

CrowdedRawValues == { PyNone, PyInt(999), PyStr("bad") }

SettingsInputs ==
    BadShapes \cup { WithBlock(b) : b \in Blocks(RawValues) }
    \cup { Crowded(b) : b \in Blocks(CrowdedRawValues) }
SaveInputs == BadShapes \cup { WithBlock(b) : b \in Blocks(SaveRawValues) }

\* a sanitizer that also stores the sanitized throttle in the cached field
ValidateAndSanitize_refreshing ==
    /\ pc = "idle" /\ impl = "plugin"
    /\ \E data \in SettingsInputs :
         \E r \in {_validate_and_sanitize_settings(data)} :
            /\ call' = [op |-> "_validate_and_sanitize_settings", data |-> data,
                        once |-> r.data, after |-> r.data, applied |-> 1, out |-> r.out]
            /\ _debug_throttle_seconds' =
                  LET key == "debug_throttle_seconds"
                      held == /\ IsDict(r.data) /\ "plugins" \in DOMAIN r.data.d
                              /\ IsDict(r.data.d["plugins"])
                              /\ "octoprint_uptime" \in DOMAIN r.data.d["plugins"].d
                              /\ IsDict(r.data.d["plugins"].d["octoprint_uptime"])
                              /\ key \in DOMAIN r.data.d["plugins"].d["octoprint_uptime"].d
                              /\ r.data.d["plugins"].d["octoprint_uptime"].d[key].t = "int"
                  IN IF held THEN r.data.d["plugins"].d["octoprint_uptime"].d[key].v
                     ELSE _debug_throttle_seconds
    /\ pc' = "done"
    /\ UNCHANGED << _settings, _debug_enabled, _navbar_enabled, _display_format, stamps,
                    _last_uptime_source, impl, now >>

ValidateAndSanitize ==
    /\ pc = "idle" /\ impl = "plugin"
    /\ \E data \in SettingsInputs :
         \E r \in {_validate_and_sanitize_settings(data)} :
            call' = [op |-> "_validate_and_sanitize_settings", data |-> data,
                     once |-> r.data, after |-> r.data, applied |-> 1, out |-> r.out]
    /\ pc' = "done"
    /\ UNCHANGED << _settings, cached, stamps, _last_uptime_source, impl, now >>

\* the sanitizer is given the data it has already sanitized
ValidateAndSanitizeAgain ==
    /\ pc = "done" /\ call.op = "_validate_and_sanitize_settings"
    /\ call.applied = 1
    /\ \E r \in {_validate_and_sanitize_settings(call.after)} :
         call' = [call EXCEPT !.after = r.data, !.applied = 2, !.out = r.out]
    /\ UNCHANGED << _settings, cached, stamps, _last_uptime_source, impl, now, pc >>

OnSettingsSave ==
    /\ pc = "idle" /\ impl = "plugin"
    /\ \E data \in SaveInputs, logger \in Loggers, base \in BaseSaves :
         \E r \in {on_settings_save(data, _settings, cached, logger, base)} :
            /\ call' = [op |-> "on_settings_save", data |-> data, logger |-> logger,
                        base |-> base, before |-> _settings, after |-> r.data,
                        steps |-> r.steps, out |-> r.out]
            /\ _settings' = r.settings
            /\ _debug_enabled' = r.fields[1]
            /\ _navbar_enabled' = r.fields[2]
            /\ _display_format' = r.fields[3]
            /\ _debug_throttle_seconds' = r.fields[4]
    /\ pc' = "done"
    /\ UNCHANGED << stamps, _last_uptime_source, impl, now >>

InitOnSettingsSave ==
    /\ pc = "idle" /\ impl = "init"
    /\ \E data \in SaveInputs, logger \in Loggers, base \in BaseSaves :
         \E r \in {init_on_settings_save(data, _settings, cached, logger, base)} :
            /\ call' = [op |-> "init_on_settings_save", data |-> data, logger |-> logger,
                        base |-> base, before |-> _settings, after |-> r.data,
                        steps |-> r.steps, out |-> r.out]
            /\ _settings' = r.settings
            /\ _debug_enabled' = r.fields[1]
            /\ _navbar_enabled' = r.fields[2]
            /\ _display_format' = r.fields[3]
            /\ _debug_throttle_seconds' = r.fields[4]
    /\ pc' = "done"
    /\ UNCHANGED << stamps, _last_uptime_source, impl, now >>

NextSettings ==
    \/ Return
    \/ ValidateAndSanitize
    \/ ValidateAndSanitizeAgain
    \/ OnSettingsSave
    \/ InitOnSettingsSave
    \/ OnSettingsInitialized
    \/ InitOnSettingsInitialized

SpecSettings == Init /\ [][NextSettings]_vars

-----------------------------------------------------------------------------
(* The formatters on their own: each is applied to durations that have and  *)
(* lack each of the day, hour, minute and second components.                *)

\* hours, minutes and seconds of the sampled durations
HourSamples == {0, 1, 23}
MinuteSamples == {0, 1, 59}

\* durations in ticks, whole and fractional, and two negative ones
FormatInputs ==
    { (d * 86400 + h * 3600 + m * 60 + s) * Resolution + f :
        d \in 0..MaxDays, h \in HourSamples, m \in MinuteSamples, s \in MinuteSamples,
        f \in {0, Resolution - 1} }
    \cup { -Resolution, -(Resolution - 1) }

\* op(seconds) returned out
Formatted(op, ticks, out) ==
    /\ pc = "idle"
    /\ call' = [op |-> op, ticks |-> ticks, out |-> Ret(PyStr(out))]
    /\ pc' = "done"
    /\ UNCHANGED << _settings, cached, stamps, _last_uptime_source, impl, now >>

FormatUptime ==
    impl = "plugin" /\ \E ticks \in FormatInputs :
        Formatted("format_uptime", ticks, format_uptime(ticks))

FormatUptimeDhm ==
    impl = "plugin" /\ \E ticks \in FormatInputs :
        Formatted("format_uptime_dhm", ticks, format_uptime_dhm(ticks))

FormatUptimeDh ==
    impl = "plugin" /\ \E ticks \in FormatInputs :
        Formatted("format_uptime_dh", ticks, format_uptime_dh(ticks))

FormatUptimeD ==
    impl = "plugin" /\ \E ticks \in FormatInputs :
        Formatted("format_uptime_d", ticks, format_uptime_d(ticks))

InitFormatUptime ==
    impl = "init" /\ \E ticks \in FormatInputs :
        Formatted("_format_uptime", ticks, _format_uptime(ticks))

InitFormatUptimeDhm ==
    impl = "init" /\ \E ticks \in FormatInputs :
        Formatted("_format_uptime_dhm", ticks, _format_uptime_dhm(ticks))

InitFormatUptimeDh ==
    impl = "init" /\ \E ticks \in FormatInputs :
        Formatted("_format_uptime_dh", ticks, _format_uptime_dh(ticks))

InitFormatUptimeD ==
    impl = "init" /\ \E ticks \in FormatInputs :
        Formatted("_format_uptime_d", ticks, _format_uptime_d(ticks))

NextFormat ==
    \/ Return
    \/ FormatUptime
    \/ FormatUptimeDhm
    \/ FormatUptimeDh
    \/ FormatUptimeD
    \/ InitFormatUptime
    \/ InitFormatUptimeDhm
    \/ InitFormatUptimeDh
    \/ InitFormatUptimeD

SpecFormat == Init /\ [][NextFormat]_vars

-----------------------------------------------------------------------------
(* Properties of the uptime resolver *)

\* a call of op has just finished
Called(op) == pc = "done" /\ call.op = op

\* the psutil strategy has a boot time that gives a plausible duration at t
PsutilInRange(os, t) ==
    /\ os.psutil.state = "ok"
    /\ 0 <= t - os.psutil.boot
    /\ t - os.psutil.boot < 10 * 365 * 24 * 3600 * Resolution

C3_TotalFailure ==
    (/\ Called("_get_uptime_seconds")
     /\ call.os.proc.state # "ok"
     /\ ~PsutilInRange(call.os, now)
     /\ call.os.cmd.state # "ok")
        => call.out = Ret(PyTuple2(PyNone, PyStr("none")))

\* the duration a resolver call returned: plugin.py returns a pair
Duration(out) == IF out.v.t = "tuple" THEN out.v.a ELSE out.v

\* C4: with /proc/uptime missing, the psutil strategy's now - boot_time is
\* the result exactly when it is at least 0 and below ten years; otherwise
\* the resolver does not return it
C4_PsutilRange ==
    (/\ Called("_get_uptime_seconds") \/ Called("init_get_uptime_seconds")
     /\ call.os.proc.state = "missing"
     /\ call.os.psutil.state = "ok")
        => /\ call.out.k = "return"
           /\ (Duration(call.out) = PyFloat(now - call.os.psutil.boot))
                <=> PsutilInRange(call.os, now)

-----------------------------------------------------------------------------
(* Properties of the get-uptime API *)

\* HTTP 403, or a mapping with an "error" key
IsForbidden(out) ==
    \/ out = Raise("Forbidden")
    \/ out.k = "return" /\ out.v.t = "dict" /\ "error" \in DOMAIN out.v.d

\* C5: when the host's capability check denies the request, on_api_get
\* answers with a forbidden indicator and never with an uptime payload
C5_DenialIsForbidden ==
    (/\ Called("on_api_get") \/ Called("init_on_api_get")
     /\ call.req.host = "deny")
        => IsForbidden(call.out)

\* C6: whatever the capability check or the abort step raises,
\* _handle_permission_check does not raise: it yields None or a forbidden
\* response, and the mapping with error "Forbidden" when both steps fail
C6_PermissionCheckSafe ==
    Called("_handle_permission_check")
        => /\ call.out = Ret(PyNone) \/ IsForbidden(call.out)
           /\ (/\ call.check.k = "raise"
               /\ call.abort.k = "raise"
               /\ call.abort.e # "Forbidden")
                 => /\ call.out.k = "return"
                    /\ call.out.v.t = "dict"
                    /\ call.out.v.d.error = PyStr("Forbidden")

\* C7: no exception escapes on_api_get, whichever of the permission check,
\* the uptime source, a caller-supplied getter, the settings reads or the
\* logger fails
C7_NoExceptionEscapes ==
    (Called("on_api_get") \/ Called("init_on_api_get")) => call.out.k # "raise"

\* uptime resolution gives no number: the getter raises or returns none, or,
\* without a getter, neither /proc/uptime nor psutil yields a duration
ResolutionFails(getter, os, t) ==
    IF getter = NoGetter
    THEN os.proc.state # "ok" /\ ~PsutilInRange(os, t)
    ELSE getter.k = "raise" \/ getter.v = PyNone

\* C8: when uptime resolution fails, the result is a normal payload with
\* "unknown" in uptime, uptime_dhm, uptime_dh and uptime_d and seconds None
C8_UnknownPlaceholder ==
    /\ (Called("_get_uptime_info") /\ ResolutionFails(call.getter, call.os, now))
         => call.out = Ret([seconds |-> PyNone, uptime |-> PyStr("unknown"),
                            uptime_dhm |-> PyStr("unknown"),
                            uptime_dh |-> PyStr("unknown"),
                            uptime_d |-> PyStr("unknown")])
    /\ (/\ Called("on_api_get")
        /\ ResolutionFails(call.req.getter, call.req.os, now)
        /\ call.req.flask = "present"
        /\ call.req.sfail = NoSettingsFailure
        /\ call.req.logger.state # "raises")
         => /\ call.out.k = "return"
            /\ call.out.v.t = "json"
            /\ call.out.v.d.seconds = PyNone
            /\ \A f \in {"uptime", "uptime_dhm", "uptime_dh", "uptime_d"} :
                 call.out.v.d[f] = PyStr("unknown")

\* the elapsed seconds, the four formatted strings and the three settings
ResponseKeys ==
    {"seconds", "uptime", "uptime_dhm", "uptime_dh", "uptime_d",
     "navbar_enabled", "display_format", "poll_interval_seconds"}

\* on_api_get returned an uptime response
Permitted ==
    /\ Called("on_api_get") \/ Called("init_on_api_get")
    /\ call.out.k = "return"
    /\ "error" \notin DOMAIN call.out.v.d

-----------------------------------------------------------------------------
(* Properties of the formatters *)

\* C10: for s >= 0, format_uptime lists d, h, m, s in this order, separated
\* by single spaces: days only when days > 0, hours iff hours > 0 or
\* days > 0, minutes iff minutes > 0 or hours > 0 or days > 0; the result is
\* never empty, and 3601, 61 and 90061 give "1h 0m 1s", "1m 1s" and
\* "1d 1h 1m 1s"
C10_FormatFull ==
    (Called("format_uptime") /\ call.ticks >= 0)
        => LET s == call.ticks \div Resolution
               d == s \div 86400
               h == (s \div 3600) % 24
               m == (s \div 60) % 60
               lead == (IF d > 0 THEN ToString(d) \o "d " ELSE "")
                       \o (IF h > 0 \/ d > 0 THEN ToString(h) \o "h " ELSE "")
                       \o (IF m > 0 \/ h > 0 \/ d > 0 THEN ToString(m) \o "m " ELSE "")
               text == call.out.v.v
           IN /\ text # ""
              /\ text = lead \o ToString(s % 60) \o "s" \/ text \o " " = lead
              /\ s = 3601 => text = "1h 0m 1s"
              /\ s = 61 => text = "1m 1s"
              /\ s = 90061 => text = "1d 1h 1m 1s"

\* C10: format_uptime(3601) showed the zero minutes
C10_Witness ==
    /\ Called("format_uptime")
    /\ call.ticks = 3601 * Resolution
    /\ call.out = Ret(PyStr("1h 0m 1s"))

\* the d, h and m components a full format shows before the seconds, each
\* followed by a space
Lead(s) ==
    LET d == s \div 86400
        h == (s \div 3600) % 24
        m == (s \div 60) % 60
    IN (IF d > 0 THEN ToString(d) \o "d " ELSE "")
       \o (IF h > 0 \/ d > 0 THEN ToString(h) \o "h " ELSE "")
       \o (IF m > 0 \/ h > 0 \/ d > 0 THEN ToString(m) \o "m " ELSE "")

\* C11: for s >= 0 the full format ends with the seconds component unless
\* the seconds are zero and another component was emitted: "0s" appears only
\* for a duration of zero
C11_ZeroSecondsOmitted ==
    ((Called("format_uptime") \/ Called("_format_uptime")) /\ call.ticks >= 0)
        => LET s == call.ticks \div Resolution
               text == call.out.v.v
           IN IF s % 60 = 0 /\ Lead(s) # ""
              THEN text \o " " = Lead(s)
              ELSE text = Lead(s) \o ToString(s % 60) \o "s"

\* C12: for s >= 0, format_uptime_dhm is "{d}d {h}h {m}m" when days > 0 and
\* "{h}h {m}m" otherwise, and format_uptime_dh is format_uptime_dhm without
\* the minutes: "{d}d {h}h" when days > 0 and "{h}h" otherwise
C12_DhmAndDh ==
    LET s == call.ticks \div Resolution
        D == ToString(s \div 86400) \o "d"
        H == ToString((s % 86400) \div 3600) \o "h"
        M == ToString((s % 3600) \div 60) \o "m"
        text == call.out.v.v
    IN /\ (Called("format_uptime_dhm") /\ call.ticks >= 0)
            => text = IF s \div 86400 > 0 THEN D \o " " \o H \o " " \o M ELSE H \o " " \o M
       /\ (Called("format_uptime_dh") /\ call.ticks >= 0)
            => /\ text = IF s \div 86400 > 0 THEN D \o " " \o H ELSE H
               /\ text \o " " \o M = format_uptime_dhm(call.ticks)

\* C12: format_uptime_dhm(3600) showed the zero minutes
C12_Witness ==
    /\ Called("format_uptime_dhm")
    /\ call.ticks = 3600 * Resolution
    /\ call.out = Ret(PyStr("1h 0m"))

\* C13: a formatter given negative seconds rejects them: it returns no
\* formatted string
C13_NegativeRejected ==
    (/\ pc = "done"
     /\ call.op \in {"format_uptime", "format_uptime_dhm", "format_uptime_dh",
                     "format_uptime_d", "_format_uptime", "_format_uptime_dhm",
                     "_format_uptime_dh", "_format_uptime_d"}
     /\ call.ticks < 0)
        => call.out.k = "raise"

\* data holds a plugins -> octoprint_uptime mapping, and that mapping
HasBlock(data) ==
    /\ IsDict(data) /\ "plugins" \in DOMAIN data.d
    /\ IsDict(data.d["plugins"]) /\ "octoprint_uptime" \in DOMAIN data.d["plugins"].d
    /\ IsDict(data.d["plugins"].d["octoprint_uptime"])

BlockOf(data) == data.d["plugins"].d["octoprint_uptime"].d

IntegerFields == { <<"debug_throttle_seconds", 60>>, <<"poll_interval_seconds", 5>> }

\* a sanitizer call, applied once, or a save: each leaves the data it was
\* given in call.data and the data as it stands afterwards in call.after
Sanitized ==
    /\ pc = "done"
    /\ \/ call.op = "_validate_and_sanitize_settings" /\ call.applied = 1
       \/ call.op \in {"on_settings_save", "init_on_settings_save"}

\* C14: after the sanitizer, each of debug_throttle_seconds (default 60) and
\* poll_interval_seconds (default 5) that the block held is the integer
\* default when its raw value was None or did not convert with int(), and
\* max(1, min(int(raw), 120)) otherwise
C14_SanitizedValue ==
    (Sanitized /\ HasBlock(call.data)) =>
        \A f \in IntegerFields :
            f[1] \in DOMAIN BlockOf(call.data) =>
                LET raw == BlockOf(call.data)[f[1]]
                    converted == IF raw = PyNone THEN Raise("ValueError") ELSE int_of(raw)
                IN BlockOf(call.after)[f[1]] =
                       IF converted.k = "raise" THEN PyInt(f[2])
                       ELSE PyInt(IF converted.v.v < 1 THEN 1
                                  ELSE IF converted.v.v > 120 THEN 120 ELSE converted.v.v)

C16_Idempotent ==
    (pc = "done" /\ call.op = "_validate_and_sanitize_settings" /\ call.applied = 2) =>
        call.after = call.once

C16_Witness ==
    /\ pc = "done" /\ call.op = "_validate_and_sanitize_settings" /\ call.applied = 2
    /\ call.data = WithBlock(("debug_throttle_seconds" :> PyInt(999))
                              @@ ("poll_interval_seconds" :> PyStr("bad")))
    /\ call.once = WithBlock(("debug_throttle_seconds" :> PyInt(120))
                              @@ ("poll_interval_seconds" :> PyInt(5)))
    /\ call.after = call.once

\* C17: when the root settings value is not a mapping, or 'plugins' is absent
\* or not a mapping, or 'octoprint_uptime' is absent or not a mapping, the
\* sanitizer raises nothing and leaves the data unchanged, called on its own
\* or as the first step of a save
C17_BadShapesTolerated ==
    (Sanitized /\ ~HasBlock(call.data)) =>
        /\ call.after = call.data
        /\ call.op = "_validate_and_sanitize_settings" => call.out = Ret(PyNone)
        /\ call.op # "_validate_and_sanitize_settings" => call.steps # <<"sanitize">>

C17_Witness ==
    /\ Sanitized /\ call.op = "_validate_and_sanitize_settings"
    /\ call.data = Dict("plugins" :> PyList)
    /\ call.after = call.data /\ call.out = Ret(PyNone)

Saves == {"on_settings_save", "init_on_settings_save"}

\* a stored integer field is an integer in [1, 120]
InRange(x) == x.t = "int" /\ x.v \in 1..120

-----------------------------------------------------------------------------
(* Properties of the elapsed seconds *)

\* C19: the seconds a get-uptime response carries are None or a number
\* >= 0, whether /proc/uptime, psutil, the command or a caller-supplied
\* getter produced them
C19_SecondsNotNegative ==
    (Permitted /\ "seconds" \in DOMAIN call.out.v.d) =>
        \/ call.out.v.d["seconds"] = PyNone
        \/ /\ IsNumber(call.out.v.d["seconds"])
           /\ Ticks(call.out.v.d["seconds"]) >= 0

\* C20: a get-uptime request whose `uptime -s` command never exits still
\* ends with a response: the command strategy is cut off and counts as
\* failed, and the request completes with the fallback result
C20_HangingCommandCutOff ==
    (/\ pc = "done"
     /\ \/ call.op \in {"on_api_get", "init_on_api_get"} /\ call.req.os.cmd.state = "hang"
        \/ call.op = "init_get_uptime_seconds" /\ call.os.cmd.state = "hang")
        => call.out.k = "return"

-----------------------------------------------------------------------------
(* Further properties of the get-uptime API *)

OctoprintKeys ==
    {"octoprint_uptime", "octoprint_uptime_dhm", "octoprint_uptime_dh", "octoprint_uptime_d",
     "octoprint_seconds"}

\* C21: with show_octoprint_uptime disabled, on_api_get reports no process
\* uptime: each octoprint_* field its response carries is None or "unknown"
C21_ProcessUptimeOptional ==
    (Permitted /\ call.op = "on_api_get" /\ ~bool(_settings["show_octoprint_uptime"])) =>
        \A k \in OctoprintKeys \cap DOMAIN call.out.v.d :
            call.out.v.d[k] \in {PyNone, unknown}

\* a logger whose methods raise, and the logger that works
LoggerRaises(logger) == logger.state = "raises"
WorkingLogger == Logger("ok", "")

\* C22: a logger whose methods raise changes neither the outcome of
\* on_api_get, on_settings_save or on_settings_initialized nor the state
\* the call leaves: both are what they are with a logger that works
C22_LoggingSwallowed ==
    [][(pc = "idle" /\ pc' = "done") =>
         /\ (call'.op = "on_api_get" /\ LoggerRaises(call'.req.logger)) =>
               \E r \in {on_api_get([call'.req EXCEPT !.logger = WorkingLogger], now,
                                    _settings, _last_uptime_source, _debug_enabled,
                                    _last_debug_time, _debug_throttle_seconds)} :
                  /\ call'.out = r.out
                  /\ _last_uptime_source' = r.source
                  /\ _last_debug_time' = r.last
         /\ (call'.op = "init_on_api_get" /\ LoggerRaises(call'.req.logger)) =>
               \E r \in {init_on_api_get([call'.req EXCEPT !.logger = WorkingLogger], now,
                                         _settings, _debug_enabled, _last_debug_time,
                                         _debug_throttle_seconds, _last_throttle_notice)} :
                  /\ call'.out = r.out
                  /\ _last_debug_time' = r.last
                  /\ _last_throttle_notice' = r.notice
         /\ (call'.op = "on_settings_initialized" /\ LoggerRaises(call'.logger)) =>
               \E r \in {on_settings_initialized(_settings, cached, call'.hook,
                                                 WorkingLogger)} :
                  /\ call'.out = r.out
                  /\ cached' = r.fields
         /\ (call'.op = "on_settings_save" /\ LoggerRaises(call'.logger)) =>
               \E r \in {on_settings_save(call'.data, _settings, cached, WorkingLogger,
                                          call'.base)} :
                  /\ call'.out = r.out
                  /\ _settings' = r.settings
                  /\ cached' = r.fields
         /\ (call'.op = "init_on_settings_save" /\ LoggerRaises(call'.logger)) =>
               \E r \in {init_on_settings_save(call'.data, _settings, cached, WorkingLogger,
                                               call'.base)} :
                  /\ call'.out = r.out
                  /\ _settings' = r.settings
                  /\ cached' = r.fields
      ]_vars

\* the three values C23 states for a store and a failing read
ExpectedApiSettings(settings, sfail) ==
    LET Missing(k) == sfail.key = k \/ settings[k] = PyNone
        raw_poll == settings["poll_interval_seconds"]
        n == IF Missing("poll_interval_seconds") \/ raw_poll = PyStr("") THEN 5
             ELSE IF int_of(raw_poll).k # "return" THEN 5
             ELSE int_of(raw_poll).v.v
    IN [navbar_enabled |-> IF Missing("navbar_enabled") THEN PyBool(TRUE)
                           ELSE PyBool(bool(settings["navbar_enabled"])),
        display_format |-> IF Missing("display_format") THEN PyStr("full")
                           ELSE PyStr(str(settings["display_format"])),
        poll_interval |-> PyInt(IF n < 1 THEN 1 ELSE IF n > 120 THEN 120 ELSE n)]

\* C23: each of the three settings reads is guarded on its own: a failing or
\* missing read gives that setting's default (True, 'full', 5) and the other
\* two keep their stored values; the poll interval returned is an integer
\* in [1, 120] (below 1 gives 1, above 120 gives 120, non-numeric or empty
\* gives 5); this holds for _get_api_settings and for the settings fields
\* of a JSON response
C23_SettingsReadsGuarded ==
    /\ Called("_get_api_settings") =>
          /\ call.out.k = "return"
          /\ call.out.v = ExpectedApiSettings(_settings, call.sfail)
    /\ (Permitted /\ call.req.flask = "present") =>
          \E e \in {ExpectedApiSettings(_settings, call.req.sfail)} :
             /\ call.out.v.d["navbar_enabled"] = e.navbar_enabled
             /\ call.out.v.d["display_format"] = e.display_format
             /\ call.out.v.d["poll_interval_seconds"] = e.poll_interval

\* C24: without the web layer and with permission granted, on_api_get
\* returns a plain mapping whose only key is uptime, holding a string
C24_PlainMappingOnlyUptime ==
    (Permitted /\ call.req.flask = "absent" /\ call.req.host = "allow") =>
        /\ call.out.v.t = "dict"
        /\ DOMAIN call.out.v.d = {"uptime"}
        /\ call.out.v.d["uptime"].t = "str"

-----------------------------------------------------------------------------
(* Properties of the throttled debug log, plugin.py *)

\* C25: a call emits a debug message only with debug enabled and at least
\* _debug_throttle_seconds after _last_debug_time, and then sets
\* _last_debug_time to its own time; a call arriving sooner, or with debug
\* disabled, emits nothing and leaves _last_debug_time unchanged; nothing
\* else changes _last_debug_time, so any two messages are at least
\* _debug_throttle_seconds apart
C25_DebugThrottle ==
    [][impl = "plugin" =>
         /\ (pc = "idle" /\ pc' = "done" /\ call'.op = "on_api_get") =>
               IF _debug_enabled /\ now - _last_debug_time >= _debug_throttle_seconds * Resolution
               THEN /\ _last_debug_time' \in {_last_debug_time, now}
                    /\ call'.emitted => _last_debug_time' = now
               ELSE ~call'.emitted /\ _last_debug_time' = _last_debug_time
         /\ _last_debug_time' # _last_debug_time =>
               pc = "idle" /\ pc' = "done" /\ call'.op = "on_api_get"
      ]_vars

\* C25: a request with a working logger that came before the throttle
\* interval after an emitted message had passed, and emitted nothing
C25_Witness ==
    /\ Permitted /\ call.op = "on_api_get" /\ _debug_enabled
    /\ call.req.logger = Logger("ok", "")
    /\ now = (StartTime + TickSeconds) * Resolution
    /\ _last_debug_time = now
    /\ ~call.emitted

\* what a request of the race returns when it is served alone, from the
\* state the race began in
Alone ==
    on_api_get(call.req, now, _settings, call.source, _debug_enabled, call.last,
               _debug_throttle_seconds).out

\* C26: when two get-uptime requests interleave, each of them raises
\* nothing and returns the payload it returns when it is served alone
C26_BenignRace ==
    pc = "race" =>
        \A i \in 1..2 :
            call.threads[i].at = "done" =>
                /\ call.threads[i].out.k = "return"
                /\ call.threads[i].out = Alone

-----------------------------------------------------------------------------
(* Properties of the source tag *)

\* C27: with a callable get_uptime_seconds that returns, _get_uptime_info
\* reports what the getter returned whatever the operating system offers:
\* the recorded source is the tag of a (seconds, tag) pair and 'custom' for
\* any other value; numeric seconds come back as a float with their four
\* strings, non-numeric seconds as None with 'unknown' strings
C27_CustomGetter ==
    (Called("_get_uptime_info") /\ call.getter.k = "return") =>
        LET res == call.getter.v
            seconds == IF res.t = "tuple" THEN res.a ELSE res
        IN /\ _last_uptime_source = IF res.t = "tuple" THEN res.b ELSE PyStr("custom")
           /\ call.out.k = "return"
           /\ IF seconds.t \in {"int", "float", "bool"}
              THEN /\ call.out.v.seconds = PyFloat(Ticks(seconds))
                   /\ call.out.v.uptime = PyStr(format_uptime(Ticks(seconds)))
                   /\ call.out.v.uptime_dhm = PyStr(format_uptime_dhm(Ticks(seconds)))
                   /\ call.out.v.uptime_dh = PyStr(format_uptime_dh(Ticks(seconds)))
                   /\ call.out.v.uptime_d = PyStr(format_uptime_d(Ticks(seconds)))
              ELSE call.out.v = Info(PyNone, unknown, unknown, unknown, unknown)

\* C27: /proc/uptime was readable, and the getter's pair was reported
C27_Witness ==
    /\ Called("_get_uptime_info")
    /\ call.getter = Ret(PyTuple2(PyInt(200), PyStr("sensor")))
    /\ call.os.proc.state = "ok"
    /\ _last_uptime_source = PyStr("sensor")
    /\ call.out.k = "return"
    /\ call.out.v.seconds = PyFloat(200 * Resolution)
    /\ call.out.v.uptime = PyStr("3m 20s")

\* the tags the built-in resolver may return
SourceTags == { PyStr("proc"), PyStr("psutil"), PyStr("command"), PyStr("none") }

\* C28: every call of the built-in resolver returns a (duration, tag) pair
\* whose tag is one of proc, psutil, command and none, the duration is None
\* exactly when the tag is 'none', and _last_uptime_source is the tag
\* returned
C28_OneSourceTag ==
    (Called("_get_uptime_seconds") \/ Called("init_get_uptime_seconds")) =>
        /\ call.out.k = "return"
        /\ call.out.v.t = "tuple"
        /\ call.out.v.b \in SourceTags
        /\ (call.out.v.a = PyNone) <=> (call.out.v.b = PyStr("none"))
        /\ _last_uptime_source = call.out.v.b

-----------------------------------------------------------------------------
(* Agreement of the two formatter implementations *)

\* C29: for every duration s >= 0, each formatter of plugin.py returns the
\* string the formatter of __init__.py for the same format returns, and
\* the other way round: format_uptime and _format_uptime, and likewise the
\* dhm, dh and d pairs
C29_FormattersAgree ==
    (pc = "done" /\ "ticks" \in DOMAIN call /\ call.ticks >= 0) =>
        /\ call.op = "format_uptime" => call.out = Ret(PyStr(_format_uptime(call.ticks)))
        /\ call.op = "_format_uptime" => call.out = Ret(PyStr(format_uptime(call.ticks)))
        /\ call.op = "format_uptime_dhm"
              => call.out = Ret(PyStr(_format_uptime_dhm(call.ticks)))
        /\ call.op = "_format_uptime_dhm"
              => call.out = Ret(PyStr(format_uptime_dhm(call.ticks)))
        /\ call.op = "format_uptime_dh" => call.out = Ret(PyStr(_format_uptime_dh(call.ticks)))
        /\ call.op = "_format_uptime_dh" => call.out = Ret(PyStr(format_uptime_dh(call.ticks)))
        /\ call.op = "format_uptime_d" => call.out = Ret(PyStr(_format_uptime_d(call.ticks)))
        /\ call.op = "_format_uptime_d" => call.out = Ret(PyStr(format_uptime_d(call.ticks)))

-----------------------------------------------------------------------------
(* The frame of the sanitizer *)

\* C30: _validate_and_sanitize_settings, applied once or twice, leaves data
\* as it was except for the values of debug_throttle_seconds and
\* poll_interval_seconds inside plugins -> octoprint_uptime: every other
\* section, plugin and field keeps its value, the block keeps exactly the
\* keys it had, and the step of the call leaves _debug_enabled,
\* _navbar_enabled, _display_format and _debug_throttle_seconds unchanged
C30_SanitizerFrame ==
    /\ []((pc = "done" /\ call.op = "_validate_and_sanitize_settings") =>
            IF ~HasBlock(call.data) THEN call.after = call.data
            ELSE /\ HasBlock(call.after)
                 /\ call.after = [call.data EXCEPT
                        !.d["plugins"].d["octoprint_uptime"].d = BlockOf(call.after)]
                 /\ DOMAIN BlockOf(call.after) = DOMAIN BlockOf(call.data)
                 /\ \A k \in DOMAIN BlockOf(call.data) :
                       k \notin {"debug_throttle_seconds", "poll_interval_seconds"} =>
                           BlockOf(call.after)[k] = BlockOf(call.data)[k])
    /\ [][(call' # call /\ call'.op = "_validate_and_sanitize_settings")
             => cached' = cached]_vars

\* C30: the sanitizer clamped the throttle of a block that stands next to
\* other settings and lacks the poll interval
C30_Witness ==
    /\ pc = "done" /\ call.op = "_validate_and_sanitize_settings"
    /\ call.data = Crowded(("debug_throttle_seconds" :> PyInt(999))
                            @@ ("navbar_enabled" :> PyBool(FALSE)))
    /\ call.after = Crowded(("debug_throttle_seconds" :> PyInt(120))
                             @@ ("navbar_enabled" :> PyBool(FALSE)))
    /\ call.out = Ret(PyNone)
====
